---- MODULE Spec2Model ----
(***************************************************************************)
(* A model of my-investool: the on-disk cache (utils/data_cache.py), the   *)
(* data gateway in front of it (utils/stock_data.py) and the concurrent    *)
(* selection run (main.py: select_stocks / process_single_stock).          *)
(*                                                                         *)
(* Two specifications share the cache state:                               *)
(*   Spec       one selection run: universe acquisition, the worker pool,  *)
(*              the per-symbol jobs, collection and the final report;      *)
(*   CacheSpec  the cache store's API driven directly (put / get / clear   *)
(*              / corruption / the clock).                                 *)
(***************************************************************************)
EXTENDS Integers, Sequences, FiniteSets, TLC

(***************************************************************************)
(* Bounds of the model.                                                    *)
(***************************************************************************)
MaxSymbols == 2     \* codes of the universe are 1..MaxSymbols
MaxRetry == 2       \* base_config["retry_count"] ranges over 0..MaxRetry
MaxWorkers == 2     \* base_config["max_workers"] ranges over 1..MaxWorkers
MaxClock == 3       \* the clock runs over ticks 0..MaxClock
TicksPerDay == 2    \* clock resolution: ticks in one 24 h day
MaxOps == 3         \* cache operations in one behaviour of CacheSpec

(***************************************************************************)
(* Program constants.                                                      *)
(***************************************************************************)
HistoryDays == 90   \* DATA_CONFIG["history_days"]
FreshDays == 0      \* get_stock_fundamental: expired when age.days > 0

Symbols == 1..MaxSymbols
Adjusts == {"qfq", "hfq"}
DefaultAdjust == "qfq"

\* The keys of local_results / results, in the order main.py creates them
\* and process_single_stock runs the strategy blocks.
StrategyOrder ==
    <<"volume_up", "landing_platform", "high_narrow_flag",
      "fundamental_filter", "cigarette_butt">>

StrategyNames == {StrategyOrder[i] : i \in 1..Len(StrategyOrder)}

ActiveChoices == {"all"} \cup StrategyNames

(***************************************************************************)
(* Values.  A history DataFrame is abstracted to a string:                 *)
(*   "EmptyDf"  pd.DataFrame(), .empty is True                             *)
(*   "up"       a well-formed series on which the predicate bodies return  *)
(*              True under the configured parameters                       *)
(*   "flat"     a well-formed series on which they return False            *)
(*   "bad"      a non-empty frame whose price/volume columns are not       *)
(*              numeric: the rolling means of enrichment raise on it       *)
(* and the provider may hand back each of them with its rows in any order  *)
(* ("..._unsorted"); "None" is Python's None.                              *)
(***************************************************************************)
None == "None"
EmptyDf == "EmptyDf"
Frames == {"up", "flat", "bad"}
UnsortedFrames == {"up_unsorted", "flat_unsorted", "bad_unsorted"}
RawFrames == Frames \cup UnsortedFrames
Raise == "raise"

\* variant: the rows are left in the order the provider gave them
SortIndex_AsGiven(raw) == raw

\* stock_data.py: rename the columns, set the date index, sort_index.
SortIndex(raw) ==
    CASE raw = "up_unsorted" -> "up"
      [] raw = "flat_unsorted" -> "flat"
      [] raw = "bad_unsorted" -> "bad"
      [] OTHER -> raw

\* datetime.now().strftime("%Y%m%d"): the calendar day of a tick.
Today(t) == t \div TicksPerDay

\* variant: ages are counted in calendar days
AgeDays_Calendar(t, then) == Today(t) - Today(then)

\* (now - then).days for now >= then.
AgeDays(t, then) == (t - then) \div TicksPerDay

(***************************************************************************)
(* The file system under cache/: one function per sub-directory, from the  *)
(* file's name parts to the file.  A file is [ok, obj, mtime]: ok is       *)
(* whether pickle.load succeeds on it, obj the pickled object.             *)
(***************************************************************************)
VARIABLES
    histFiles,      \* cache/history/<symbol>_<start>_<end>_<adjust>.pkl
    fundFiles,      \* cache/fundamental/<symbol>.pkl
    listFiles,      \* cache/list/stock_list_<day>.pkl
    now             \* the clock, in ticks

cacheVars == <<histFiles, fundFiles, listFiles, now>>

WriteFile(files, path, obj, t) ==
    [p \in DOMAIN files \cup {path} |->
        IF p = path THEN [ok |-> TRUE, obj |-> obj, mtime |-> t] ELSE files[p]]

\* variant: the file is left where it is
RemoveFile_Keeps(files, path) == files

RemoveFile(files, path) == [p \in DOMAIN files \ {path} |-> files[p]]

\* variant: the symbol is left out of the file name
_get_history_cache_path_NoSymbol(symbol, start_date, end_date, adjust) ==
    <<0, start_date, end_date, adjust>>

_get_history_cache_path(symbol, start_date, end_date, adjust) ==
    <<symbol, start_date, end_date, adjust>>

_get_fundamental_cache_path(symbol) == <<symbol>>

_get_stock_list_cache_path(t) == <<Today(t)>>

(***************************************************************************)
(* Python values that are not history frames.  A stock-list DataFrame is   *)
(* [py, rows], rows the codes it lists; a fundamentals dict is             *)
(* [py, keys, data, timestamp]: keys its keys, data the keys whose table   *)
(* is non-empty, timestamp the value under 'timestamp' when that key is    *)
(* present (NoStamp otherwise).                                            *)
(***************************************************************************)
NoStamp == 0 - 1

NoneList == [py |-> "None", rows |-> <<>>]
RaiseList == [py |-> "raise", rows |-> <<>>]
ListDf(rows) == [py |-> "DataFrame", rows |-> rows]
EmptyList == ListDf(<<>>)

NoneDict == [py |-> "None", keys |-> {}, data |-> {}, timestamp |-> NoStamp]
Dict(keys, data) == [py |-> "dict", keys |-> keys, data |-> data, timestamp |-> NoStamp]
EmptyDict == Dict({}, {})

Parts == {"balance_sheet", "income_statement", "cash_flow", "indicator"}

(***************************************************************************)
(* utils/data_cache.py: class DataCache.  A get returns [ret, files]: the  *)
(* value handed back and the directory after the call (a corrupted file is *)
(* removed); a put returns the directory after the call.                   *)
(***************************************************************************)

\* DataCache.get_stock_history
cache_get_stock_history(files, symbol, start_date, end_date, adjust) ==
    LET cache_path == _get_history_cache_path(symbol, start_date, end_date, adjust)
    IN  IF cache_path \notin DOMAIN files
        THEN [ret |-> None, files |-> files]
        ELSE IF ~files[cache_path].ok
        THEN [ret |-> None, files |-> RemoveFile(files, cache_path)]
        ELSE [ret |-> files[cache_path].obj, files |-> files]

\* variant: the frame is never written
cache_stock_history_Skips(files, df, symbol, start_date, end_date, adjust, t) == files

\* DataCache.cache_stock_history
cache_stock_history(files, df, symbol, start_date, end_date, adjust, t) ==
    IF df = None \/ df = EmptyDf
    THEN files
    ELSE WriteFile(files, _get_history_cache_path(symbol, start_date, end_date, adjust), df, t)

\* variant: the timestamp key is left in the dict handed back
cache_get_stock_fundamental_KeepsStamp(files, symbol, t) ==
    LET cache_path == _get_fundamental_cache_path(symbol)
    IN  IF cache_path \notin DOMAIN files
        THEN [ret |-> NoneDict, files |-> files]
        ELSE IF ~files[cache_path].ok
        THEN [ret |-> NoneDict, files |-> RemoveFile(files, cache_path)]
        ELSE IF AgeDays(t, files[cache_path].obj.timestamp) > FreshDays
        THEN [ret |-> NoneDict, files |-> files]
        ELSE [ret |-> files[cache_path].obj, files |-> files]

\* DataCache.get_stock_fundamental
cache_get_stock_fundamental(files, symbol, t) ==
    LET cache_path == _get_fundamental_cache_path(symbol)
    IN  IF cache_path \notin DOMAIN files
        THEN [ret |-> NoneDict, files |-> files]
        ELSE IF ~files[cache_path].ok
        THEN [ret |-> NoneDict, files |-> RemoveFile(files, cache_path)]
        ELSE LET fundamentals == files[cache_path].obj
             IN  IF "timestamp" \in fundamentals.keys
                 THEN IF AgeDays(t, fundamentals.timestamp) > FreshDays
                      THEN [ret |-> NoneDict, files |-> files]
                      ELSE [ret |-> [fundamentals EXCEPT !.keys = @ \ {"timestamp"},
                                                         !.timestamp = NoStamp],
                            files |-> files]
                 ELSE [ret |-> fundamentals, files |-> files]

\* variant: only None is refused, a dict without keys is written
cache_stock_fundamental_NoneOnly(files, fundamentals, symbol, t) ==
    IF fundamentals.py = "None"
    THEN files
    ELSE WriteFile(files, _get_fundamental_cache_path(symbol),
                   [fundamentals EXCEPT !.keys = @ \cup {"timestamp"}, !.timestamp = t],
                   t)

\* DataCache.cache_stock_fundamental
cache_stock_fundamental(files, fundamentals, symbol, t) ==
    IF fundamentals.py = "None" \/ Cardinality(fundamentals.keys) = 0
    THEN files
    ELSE WriteFile(files, _get_fundamental_cache_path(symbol),
                   [fundamentals EXCEPT !.keys = @ \cup {"timestamp"}, !.timestamp = t],
                   t)

\* DataCache.get_stock_list
cache_get_stock_list(files, t) ==
    LET cache_path == _get_stock_list_cache_path(t)
    IN  IF cache_path \notin DOMAIN files
        THEN [ret |-> NoneList, files |-> files]
        ELSE IF ~files[cache_path].ok
        THEN [ret |-> NoneList, files |-> RemoveFile(files, cache_path)]
        ELSE [ret |-> files[cache_path].obj, files |-> files]

\* DataCache.cache_stock_list
cache_stock_list(files, df, t) ==
    IF df.py = "None" \/ df.rows = <<>>
    THEN files
    ELSE WriteFile(files, _get_stock_list_cache_path(t), df, t)

\* variant: a file is removed from the day it reaches the limit
clear_expired_cache_AtLeast(files, days, t) ==
    [p \in {q \in DOMAIN files : ~(AgeDays(t, files[q].mtime) >= days)} |-> files[p]]

\* DataCache.clear_expired_cache, on one sub-directory of the walk
clear_expired_cache(files, days, t) ==
    [p \in {q \in DOMAIN files : ~(AgeDays(t, files[q].mtime) > days)} |-> files[p]]

\* variant: only the files that cannot be read are removed
clear_all_cache_KeepsReadable(files) == [p \in {q \in DOMAIN files : files[q].ok} |-> files[p]]

\* DataCache.clear_all_cache, on one sub-directory
clear_all_cache(files) == [p \in {} |-> files[p]]

(***************************************************************************)
(* utils/stock_data.py: the gateway.  provided is what the remote call     *)
(* does if it is made: Raise, an empty frame, or a frame.  The result is   *)
(* [ret, files, called]: called tells whether the remote call was made.    *)
(***************************************************************************)

\* stock_data.get_stock_list
get_stock_list(files, t, provided) ==
    LET got == cache_get_stock_list(files, t)
    IN  IF got.ret.py # "None" /\ got.ret.rows # <<>>
        THEN [ret |-> got.ret, files |-> got.files, called |-> FALSE]
        ELSE IF provided.py = "raise"
        THEN [ret |-> EmptyList, files |-> got.files, called |-> TRUE]
        ELSE [ret |-> provided,
              files |-> IF provided.rows # <<>>
                        THEN cache_stock_list(got.files, provided, t)
                        ELSE got.files,
              called |-> TRUE]

\* variant: the gateway asks the provider a second time
HistCalls_Retried == <<"stock_zh_a_hist", "stock_zh_a_hist">>

\* the provider calls get_stock_history makes after a cache miss: the one of
\* line 80, which is in no loop
HistCalls == <<"stock_zh_a_hist">>

\* stock_data.get_stock_history
get_stock_history(files, symbol, start_date, end_date, adjust, t, provided) ==
    LET got == cache_get_stock_history(files, symbol, start_date, end_date, adjust)
    IN  IF got.ret # None /\ got.ret # EmptyDf
        THEN [ret |-> got.ret, files |-> got.files, called |-> FALSE, calls |-> <<>>]
        ELSE IF provided = Raise \/ provided = EmptyDf
        THEN [ret |-> EmptyDf, files |-> got.files, called |-> TRUE, calls |-> HistCalls]
        ELSE LET df == SortIndex(provided)
             IN  [ret |-> df,
                  files |-> cache_stock_history(got.files, df, symbol, start_date,
                                                end_date, adjust, t),
                  called |-> TRUE,
                  calls |-> HistCalls]

\* the four provider calls of get_stock_fundamentals, in the order of the code
SubFetchOrder == <<"balance_sheet", "income_statement", "cash_flow", "indicator">>

\* one try block of lines 159-185: the provider's table, or an empty one when
\* the call raised; provided is the set of parts the provider has data for
SubFetch(part, provided) ==
    [part |-> part, table |-> IF part \in provided THEN "data" ELSE "empty"]

\* variant: the first sub-fetch that fails ends the acquisition, the parts
\* after it are not asked for and stay empty
Attempted_StopAtFailure(provided) ==
    LET failing == {i \in DOMAIN SubFetchOrder : SubFetchOrder[i] \notin provided}
        stop == IF failing = {} THEN Len(SubFetchOrder)
                ELSE CHOOSE i \in failing : \A j \in failing : i <= j
    IN  SubSeq(SubFetchOrder, 1, stop)

\* the provider calls made, in order: the four try blocks follow one another
\* and none is inside a loop
Attempted(provided) == SubFetchOrder

\* the tables the four blocks leave in balance_sheet, income_statement,
\* cash_flow and indicator_df; a part not asked for has an empty table
SubFetches(provided) ==
    [i \in DOMAIN SubFetchOrder |->
        IF \E k \in DOMAIN Attempted(provided) : Attempted(provided)[k] = SubFetchOrder[i]
        THEN SubFetch(SubFetchOrder[i], provided)
        ELSE [part |-> SubFetchOrder[i], table |-> "empty"]]

\* stock_data.get_stock_fundamentals; provided is the set of parts whose
\* sub-fetch returns a non-empty table (a sub-fetch that raises gives an empty
\* table, lines 159-185)
get_stock_fundamentals(files, symbol, t, provided) ==
    LET got == cache_get_stock_fundamental(files, symbol, t)
    IN  IF got.ret.py # "None" /\ Cardinality(got.ret.keys) > 0
        THEN [ret |-> got.ret, files |-> got.files, called |-> FALSE, calls |-> <<>>]
        ELSE LET fetched == SubFetches(provided)
                 fundamentals == Dict({fetched[i].part : i \in DOMAIN fetched},
                                      {fetched[i].part : i \in {k \in DOMAIN fetched :
                                                                 fetched[k].table = "data"}})
             IN  [ret |-> fundamentals,
                  files |-> cache_stock_fundamental(got.files, fundamentals, symbol, t),
                  called |-> TRUE,
                  calls |-> Attempted(provided)]

\* stock_data.clear_cache, on one sub-directory; days = NoDays is days=None
NoDays == 0 - 1

clear_cache(files, days, t) ==
    IF days # NoDays THEN clear_expired_cache(files, days, t) ELSE clear_all_cache(files)

(***************************************************************************)
(* main.py: one selection run.                                             *)
(***************************************************************************)
VARIABLES
    phase,          \* where select_stocks is
    cfg,            \* the configuration the run reads
    stock_list,     \* the scheduled symbols, in submission order
    nsub,           \* how many of them executor.submit has been called for
    job,            \* per symbol: the state of its process_single_stock call;
                    \* fault: an exception reached the except of line 183,
                    \* raised: an exception was raised somewhere in the job
    yielded,        \* the futures as_completed has handed to the loop body
    results,        \* the shared per-strategy accumulators
    success_count,
    fail_count,
    reported,       \* the <<strategy, count>> lines of the final report
    acquired,       \* where the universe came from: "cache", "provider", or
                    \* "failed" (no cached list, and the provider raised or
                    \* returned an empty list)
    fetchLog,       \* per symbol: what each history fetch of its job returned
    tally,          \* per symbol: how often it was counted as success / failure
    results_lock,   \* the thread inside `with results_lock:`, or "free"
    progress_lock,  \* the thread inside `with progress_lock:`, or "free"
    collector       \* the body of the as_completed loop, statement by
                    \* statement: the future in hand, the statements still to
                    \* run for it, the item the for loop is at

lockVars == <<results_lock, progress_lock, collector>>

runVars == <<phase, cfg, stock_list, nsub, job, yielded, results, success_count,
             fail_count, reported, acquired, fetchLog, tally, results_lock,
             progress_lock, collector>>

\* the cache store driven directly, call by call
VARIABLES
    last,           \* the call made last: its name, kind, key parts and result;
                    \* for a strategy predicate: its name, input and result
    stored,         \* per kind and key: the payload of the latest put that took
                    \* effect, and when, until a clear or a corruption
    ops,            \* the number of calls made
    racers          \* per concurrent caller of the cache or the gateway: the
                    \* call it is in and the statement it has reached

probe == <<last, stored, ops, racers>>

vars == <<histFiles, fundFiles, listFiles, now, phase, cfg, stock_list, nsub, job,
          yielded, results, success_count, fail_count, reported, acquired,
          fetchLog, tally, results_lock, progress_lock, collector, last, stored,
          ops, racers>>

\* local_results / results as created at main.py lines 95-101 and 271-277
EmptyResults == [s \in StrategyNames |-> <<>>]

IdleJob == [st |-> "Idle", retry |-> 0, df |-> EmptyDf, blk |-> 1,
            local |-> EmptyResults, fault |-> FALSE, raised |-> FALSE]

Scheduled == {stock_list[i] : i \in 1..Len(stock_list)}
Submitted == {stock_list[i] : i \in 1..nsub}

\* the run's history key: end_date is today, start_date history_days before
EndDate == Today(now)
StartDate == Today(now) - HistoryDays

(***************************************************************************)
(* The strategy predicates as process_single_stock calls them.             *)
(***************************************************************************)
\* the keyword parameters each predicate's def accepts
Signature(strategy) ==
    CASE strategy = "volume_up" ->
            {"min_pct_change", "max_pct_change", "min_amount", "volume_ratio"}
      [] strategy = "landing_platform" -> {}
      [] strategy = "high_narrow_flag" -> {}
      [] strategy = "fundamental_filter" -> {}
      [] strategy = "cigarette_butt" -> {}

\* the keyword arguments process_single_stock passes at each call
PassedKeywords(strategy) ==
    CASE strategy = "volume_up" ->
            {"min_pct_change", "max_pct_change", "min_amount", "volume_ratio"}
      [] strategy = "landing_platform" ->
            {"big_up_threshold", "max_diff_threshold", "after_days_range"}
      [] strategy = "high_narrow_flag" ->
            {"min_trading_days", "price_ratio", "big_up_threshold"}
      [] strategy = "fundamental_filter" -> {"max_pe", "min_pe", "max_pb", "min_roe"}
      [] strategy = "cigarette_butt" ->
            {"max_pb", "max_debt_ratio", "min_positive_cash_flow"}

\* calculate_technical_indicators on a non-empty frame: the enriched frame,
\* or Raise when the rolling means meet non-numeric columns
calculate_technical_indicators(df) ==
    CASE df = "up" -> "up_enriched"
      [] df = "flat" -> "flat_enriched"
      [] df = "bad" -> Raise
      [] OTHER -> df

\* what the body of a time-series predicate returns on a frame (volume_up
\* reads the volume_ratio column enrichment adds; a missing column is caught
\* inside it and gives False).  The bodies of the two fundamentals predicates
\* are not part of the run's model: no call of the run reaches them.
PredicateBody(strategy, df) ==
    CASE strategy = "volume_up" -> IF df = "up_enriched" THEN "True" ELSE "False"
      [] strategy = "landing_platform" -> IF df = "up_enriched" THEN "True" ELSE "False"
      [] strategy = "high_narrow_flag" ->
            IF df \in {"up", "up_enriched"} THEN "True" ELSE "False"

\* the call: Python raises TypeError for a keyword the def does not accept
CallPredicate(strategy, df) ==
    IF PassedKeywords(strategy) \subseteq Signature(strategy)
    THEN PredicateBody(strategy, df)
    ELSE Raise

\* the `if active_strategy == 'all' or active_strategy == <name>` of each block
BlockSelected(strategy) ==
    cfg.active_strategy = "all" \/ cfg.active_strategy = strategy

FundamentalStrategies == {"fundamental_filter", "cigarette_butt"}

\* variant: the two fundamentals blocks call their predicate whatever
\* stock_fundamental.enabled says
RunBlock_IgnoresEnabled(strategy, df) ==
    IF ~BlockSelected(strategy) THEN "skip" ELSE CallPredicate(strategy, df)

\* one strategy block of process_single_stock (lines 125-180): "skip" when the
\* block does not call its predicate, else what the call gives
RunBlock(strategy, df) ==
    IF ~BlockSelected(strategy) THEN "skip"
    ELSE IF strategy \in FundamentalStrategies /\ ~cfg.fund_enabled THEN "skip"
    ELSE CallPredicate(strategy, df)

(***************************************************************************)
(* The state a run starts in.  The cache directory may hold files of       *)
(* earlier runs: today's stock list, and history files under the run's     *)
(* keys, each readable or corrupted.                                       *)
(***************************************************************************)
EmptyDir == [p \in {} |-> [ok |-> TRUE, obj |-> None, mtime |-> 0]]

Universe(n) == [i \in 1..n |-> i]

CorruptFile(obj) == [ok |-> FALSE, obj |-> obj, mtime |-> 0]
GoodFile(obj) == [ok |-> TRUE, obj |-> obj, mtime |-> 0]

InitialListDirs ==
    {EmptyDir}
    \cup {[p \in {_get_stock_list_cache_path(0)} |-> f] :
            f \in {CorruptFile(EmptyList), GoodFile(ListDf(Universe(MaxSymbols)))}}

RunKey(symbol) == _get_history_cache_path(symbol, 0 - HistoryDays, 0, DefaultAdjust)

InitialHistFiles == {CorruptFile(EmptyDf), GoodFile("up")}

\* nothing cached, or every symbol's file left by an earlier run of the day
InitialHistDirs ==
    {EmptyDir} \cup {[p \in {RunKey(c) : c \in Symbols} |-> f] : f \in InitialHistFiles}

Configs ==
    [active_strategy : ActiveChoices,
     fund_enabled : BOOLEAN,
     retry_count : 0..MaxRetry,
     max_workers : 1..MaxWorkers,
     adjust : {DefaultAdjust}]

NoCall == [op |-> "none", kind |-> "none", key |-> <<>>, empty |-> FALSE, ret |-> None,
           found |-> "none", called |-> FALSE, calls |-> <<>>]

NothingStored == [history |-> <<>>, fundamental |-> <<>>, list |-> <<>>]

\* the threads that use the cache at the same time
Racers == {1, 2}

IdleRacer == [pc |-> "idle", op |-> "none", kind |-> "none", key |-> <<>>, data |-> None,
              ret |-> None, at |-> 0, called |-> FALSE, wrote |-> FALSE,
              unlinked |-> FALSE, alone |-> TRUE, raised |-> FALSE]

ProbeIdle ==
    /\ last = NoCall
    /\ stored = NothingStored
    /\ ops = 0
    /\ racers = [w \in Racers |-> IdleRacer]

\* the collection loop between two futures
IdleCollector == [future |-> 0, todo |-> <<>>, item |-> 1, before |-> EmptyResults]

RunIdle ==
    /\ phase = "start"
    /\ results_lock = "free"
    /\ progress_lock = "free"
    /\ collector = IdleCollector
    /\ stock_list = <<>>
    /\ nsub = 0
    /\ job = [c \in Symbols |-> IdleJob]
    /\ yielded = {}
    /\ results = EmptyResults
    /\ success_count = 0
    /\ fail_count = 0
    /\ reported = {}
    /\ acquired = "no"
    /\ fetchLog = [c \in Symbols |-> <<>>]
    /\ tally = [c \in Symbols |-> [success |-> 0, fail |-> 0]]

Init ==
    /\ now = 0
    /\ listFiles \in InitialListDirs
    /\ histFiles \in InitialHistDirs
    /\ fundFiles = EmptyDir
    /\ cfg \in Configs
    /\ RunIdle
    /\ ProbeIdle

(***************************************************************************)
(* select_stocks, lines 190-227: configuration, and the cache cleared      *)
(* first when base_config["use_cache"] is off.                             *)
(***************************************************************************)
Prepare ==
    /\ phase = "start"
    /\ \E use_cache \in BOOLEAN :
        /\ histFiles' = IF use_cache THEN histFiles ELSE clear_cache(histFiles, NoDays, now)
        /\ fundFiles' = IF use_cache THEN fundFiles ELSE clear_cache(fundFiles, NoDays, now)
        /\ listFiles' = IF use_cache THEN listFiles ELSE clear_cache(listFiles, NoDays, now)
    /\ phase' = "universe"
    /\ UNCHANGED <<probe, lockVars>>
    /\ UNCHANGED <<now, cfg, stock_list, nsub, job, yielded, results, success_count,
                   fail_count, reported, acquired, fetchLog, tally>>

\* lines 245-260: exclude_stocks, include_stocks and limit applied in turn
\* (an empty list or a limit of None / 0 leaves the list as it is)
DfHead(rows, limit) == SubSeq(rows, 1, IF limit < Len(rows) THEN limit ELSE Len(rows))

ScopeFilter(rows, exclude_stocks, include_stocks, limit) ==
    LET NotExcluded(c) == c \notin exclude_stocks
        Included(c) == c \in include_stocks
        a == IF exclude_stocks # {} THEN SelectSeq(rows, NotExcluded) ELSE rows
        b == IF include_stocks # {} THEN SelectSeq(a, Included) ELSE a
    IN  IF limit # 0 THEN DfHead(b, limit) ELSE b

\* where select_stocks goes once n of the scheduled symbols are submitted:
\* the dict comprehension of lines 300-313 ends, as_completed takes over, and
\* with nothing (left) to collect the loop and the executor's with-block end
PhaseAfter(list, n, done) ==
    IF n < Len(list) THEN "submit"
    ELSE IF done # {list[i] : i \in 1..Len(list)} THEN "collect"
    ELSE "report"

\* variant: the outcome of get_stock_list is not looked at
UniverseUsable_Unchecked(ret) == TRUE

\* what select_stocks does with the outcome of get_stock_list (lines 231-242);
\* TRUE when the run goes on
UniverseUsable(ret) == ret.py # "raise" /\ ret.rows # <<>>

(***************************************************************************)
(* select_stocks, lines 229-296: universe acquisition and the set-up of    *)
(* the run.                                                                *)
(***************************************************************************)
AcquireUniverse ==
    /\ phase = "universe"
    /\ \E provided \in {RaiseList, EmptyList, ListDf(Universe(MaxSymbols))},
          exclude_stocks \in {{}, Symbols},
          include_stocks \in {{}, Symbols},
          limit \in 0..MaxSymbols :
        LET r == get_stock_list(listFiles, now, provided)
            list == ScopeFilter(r.ret.rows, exclude_stocks, include_stocks, limit)
        IN  /\ listFiles' = r.files
            /\ acquired' = IF ~r.called THEN "cache"
                           ELSE IF provided.py = "raise" \/ provided.rows = <<>>
                           THEN "failed"
                           ELSE "provider"
            /\ IF UniverseUsable(r.ret)
               THEN /\ stock_list' = list
                    /\ phase' = PhaseAfter(list, 0, {})
               ELSE /\ stock_list' = stock_list
                    /\ phase' = "aborted"
    /\ UNCHANGED <<probe, lockVars>>
    /\ UNCHANGED <<histFiles, fundFiles, now, cfg, nsub, job, yielded, results,
                   success_count, fail_count, reported, fetchLog, tally>>

(***************************************************************************)
(* The worker pool.  executor.submit is called for the symbols in list     *)
(* order; a worker thread takes the oldest queued job as soon as fewer     *)
(* than max_workers jobs are executing, also while later symbols are still *)
(* being submitted.                                                        *)
(***************************************************************************)
\* variant: a worker thread is not given back to the pool when its job ends
Executing_NeverReleased(c) == job[c].st \notin {"Idle", "Pending"}

Executing(c) == job[c].st \in {"Fetching", "Enriching", "Evaluating", "ErrorCaught"}
Finished(c) == job[c].st \in {"Done", "Failed"}

Submit ==
    /\ phase = "submit"
    /\ nsub < Len(stock_list)
    /\ job' = [job EXCEPT ![stock_list[nsub + 1]].st = "Pending"]
    /\ nsub' = nsub + 1
    /\ phase' = PhaseAfter(stock_list, nsub + 1, {})
    /\ UNCHANGED <<probe, lockVars>>
    /\ UNCHANGED <<cacheVars, cfg, stock_list, yielded, results, success_count,
                   fail_count, reported, acquired, fetchLog, tally>>

\* the position in the queue of the oldest job no worker has taken yet
OldestPending ==
    LET waiting == {i \in 1..nsub : job[stock_list[i]].st = "Pending"}
    IN  IF waiting = {} THEN 0 ELSE CHOOSE i \in waiting : \A j \in waiting : i <= j

\* variant: the pool lets one job more in than it has threads
PoolHasIdleWorker_OneMore ==
    Cardinality({c \in Symbols : Executing(c)}) <= cfg.max_workers

PoolHasIdleWorker ==
    Cardinality({c \in Symbols : Executing(c)}) < cfg.max_workers

\* a worker thread starts process_single_stock (lines 93-106)
Start(c) ==
    /\ phase \in {"submit", "collect"}
    /\ OldestPending # 0
    /\ c = stock_list[OldestPending]
    /\ PoolHasIdleWorker
    /\ job' = [job EXCEPT ![c] = [IdleJob EXCEPT !.st = "Fetching"]]
    /\ UNCHANGED <<probe, lockVars>>
    /\ UNCHANGED <<cacheVars, phase, cfg, stock_list, nsub, yielded, results,
                   success_count, fail_count, reported, acquired, fetchLog, tally>>

\* variant: the loop condition lets one more attempt through
FetchAgain_OneMore(j) == j.retry <= cfg.retry_count /\ j.df = EmptyDf

\* the loop condition of line 109
FetchAgain(j) == j.retry < cfg.retry_count /\ j.df = EmptyDf

\* variant: the check for an empty series after the loop is missing
AfterLoop_NoEmptyCheck(j) ==
    IF j.retry < cfg.retry_count /\ j.df = EmptyDf THEN j
    ELSE [j EXCEPT !.st = "Enriching"]

\* the loop is left, lines 116-118: no data returns None
AfterLoop(j) ==
    IF FetchAgain(j) THEN j
    ELSE [j EXCEPT !.st = IF j.df = EmptyDf THEN "Failed" ELSE "Enriching"]

\* one iteration of the retry loop, lines 109-113, and the loop's exit when
\* its condition no longer holds
FetchAttempt(c) ==
    /\ job[c].st = "Fetching"
    /\ FetchAgain(job[c])
    /\ \E provided \in {Raise, EmptyDf} \cup RawFrames :
        LET r == get_stock_history(histFiles, c, StartDate, EndDate, cfg.adjust, now, provided)
            j == [job[c] EXCEPT !.df = r.ret,
                                !.retry = IF r.ret = EmptyDf THEN @ + 1 ELSE @,
                                !.raised = @ \/ (r.called /\ provided = Raise)]
        IN  /\ histFiles' = r.files
            /\ job' = [job EXCEPT ![c] = AfterLoop(j)]
            /\ fetchLog' = [fetchLog EXCEPT ![c] = Append(@, r.ret)]
    /\ UNCHANGED <<probe, lockVars>>
    /\ UNCHANGED <<fundFiles, listFiles, now, phase, cfg, stock_list, nsub, yielded,
                   results, success_count, fail_count, reported, acquired, tally>>

\* the loop body is never entered (retry_count is 0)
FetchExit(c) ==
    /\ job[c].st = "Fetching"
    /\ ~FetchAgain(job[c])
    /\ job' = [job EXCEPT ![c] = AfterLoop(job[c])]
    /\ UNCHANGED <<probe, lockVars>>
    /\ UNCHANGED <<cacheVars, phase, cfg, stock_list, nsub, yielded, results,
                   success_count, fail_count, reported, acquired, fetchLog, tally>>

\* line 121, inside the try of line 103
Enrich(c) ==
    /\ job[c].st = "Enriching"
    /\ LET enriched == calculate_technical_indicators(job[c].df)
       IN  job' = IF enriched = Raise
                  THEN [job EXCEPT ![c].st = "ErrorCaught", ![c].fault = TRUE,
                                   ![c].raised = TRUE]
                  ELSE [job EXCEPT ![c].st = "Evaluating", ![c].df = enriched]
    /\ UNCHANGED <<probe, lockVars>>
    /\ UNCHANGED <<cacheVars, phase, cfg, stock_list, nsub, yielded, results,
                   success_count, fail_count, reported, acquired, fetchLog, tally>>

\* the first block at or after position i whose `if` is taken (lines 125, 136,
\* 146, 156, 170), or one past the last block when there is none
RECURSIVE NextBlock(_)
NextBlock(i) ==
    IF i > Len(StrategyOrder) \/ BlockSelected(StrategyOrder[i]) THEN i
    ELSE NextBlock(i + 1)

\* the next strategy block that is taken, lines 125-180, and after the last
\* one the return of line 182
EvaluateBlock(c) ==
    /\ job[c].st = "Evaluating"
    /\ LET blk == NextBlock(job[c].blk)
           strategy == StrategyOrder[blk]
           out == RunBlock(strategy, job[c].df)
           after == IF NextBlock(blk + 1) > Len(StrategyOrder) THEN "Done" ELSE "Evaluating"
       IN  job' = IF out = Raise
                  THEN [job EXCEPT ![c].st = "ErrorCaught", ![c].blk = blk,
                                   ![c].fault = TRUE, ![c].raised = TRUE]
                  ELSE [job EXCEPT ![c].st = after,
                                   ![c].blk = blk + 1,
                                   ![c].local[strategy] =
                                        IF out = "True" THEN Append(@, c) ELSE @]
    /\ UNCHANGED <<probe, lockVars>>
    /\ UNCHANGED <<cacheVars, phase, cfg, stock_list, nsub, yielded, results,
                   success_count, fail_count, reported, acquired, fetchLog, tally>>

\* the except of lines 183-186: log and return None
Catch(c) ==
    /\ job[c].st = "ErrorCaught"
    /\ job' = [job EXCEPT ![c].st = "Failed"]
    /\ UNCHANGED <<probe, lockVars>>
    /\ UNCHANGED <<cacheVars, phase, cfg, stock_list, nsub, yielded, results,
                   success_count, fail_count, reported, acquired, fetchLog, tally>>

(***************************************************************************)
(* The collection loop of select_stocks, lines 317-332.                    *)
(***************************************************************************)
\* variant: the except branch returns what the job had gathered so far
FutureResult_KeepsPartial(j) ==
    IF j.st = "Done" \/ j.fault THEN [py |-> "dict", val |-> j.local]
    ELSE [py |-> "None", val |-> EmptyResults]

\* variant: the job returns local_results on every path
FutureResult_AlwaysLocal(j) == [py |-> "dict", val |-> j.local]

\* what future.result() gives: the job's return value
FutureResult(j) ==
    IF j.st = "Done" THEN [py |-> "dict", val |-> j.local]
    ELSE [py |-> "None", val |-> EmptyResults]

\* variant: every collected future counts as a success
Truthy_Always(result) == TRUE

\* `if local_results:` a dict is true when it has a key
Truthy(result) == result.py # "None" /\ DOMAIN result.val # {}

\* variant: the accumulators are assigned, not extended
Extend_Assigns(acc, local) == [s \in DOMAIN acc |-> local[s]]

\* lines 323-324
Extend(acc, local) == [s \in DOMAIN acc |-> acc[s] \o local[s]]

Collect(c) ==
    /\ phase = "collect"
    /\ c \in Submitted \ yielded
    /\ Finished(c)
    /\ LET local_results == FutureResult(job[c])
       IN  IF Truthy(local_results)
           THEN /\ results' = Extend(results, local_results.val)
                /\ success_count' = success_count + 1
                /\ fail_count' = fail_count
                /\ tally' = [tally EXCEPT ![c].success = @ + 1]
           ELSE /\ results' = results
                /\ success_count' = success_count
                /\ fail_count' = fail_count + 1
                /\ tally' = [tally EXCEPT ![c].fail = @ + 1]
    /\ yielded' = yielded \cup {c}
    /\ phase' = PhaseAfter(stock_list, nsub, yielded \cup {c})
    /\ UNCHANGED <<probe, lockVars>>
    /\ UNCHANGED <<cacheVars, cfg, stock_list, nsub, job, reported, acquired, fetchLog>>

\* variant: strategies without a match are left out of the report
ReportLines_SkipEmpty(res) == {<<s, Len(res[s])>> : s \in {k \in DOMAIN res : res[k] # <<>>}}

\* lines 339-349: one line per key of results, then the summary line
ReportLines(res) == {<<s, Len(res[s])>> : s \in DOMAIN res}

Report ==
    /\ phase = "report"
    /\ reported' = ReportLines(results)
    /\ phase' = "done"
    /\ UNCHANGED <<probe, lockVars>>
    /\ UNCHANGED <<cacheVars, cfg, stock_list, nsub, job, yielded, results,
                   success_count, fail_count, acquired, fetchLog, tally>>

Worker ==
    \E c \in Symbols :
        \/ Start(c)
        \/ FetchAttempt(c)
        \/ FetchExit(c)
        \/ Enrich(c)
        \/ EvaluateBlock(c)
        \/ Catch(c)

Next ==
    \/ Prepare
    \/ AcquireUniverse
    \/ Submit
    \/ Worker
    \/ \E c \in Symbols : Collect(c)
    \/ Report

Spec == Init /\ [][Next]_vars

\* the scheduling of threads: a step that can be taken is eventually taken
FairSpec == Spec /\ WF_vars(Next)

(***************************************************************************)
(* Properties of the run.                                                  *)
(***************************************************************************)
Occurrences(seq, c) == Cardinality({i \in DOMAIN seq : seq[i] = c})

\* a strategy is enabled for the run
StrategyEnabled(s) ==
    BlockSelected(s) /\ (s \in FundamentalStrategies => cfg.fund_enabled)

\* the history fetches of c's job: all empty so far / the last one gave data
StaysEmpty(c) == \A i \in 1..Len(fetchLog[c]) : fetchLog[c][i] = EmptyDf
ReturnedData(c) == fetchLog[c] # <<>> /\ fetchLog[c][Len(fetchLog[c])] # EmptyDf
WellFormed(c) == job[c].df \in {"up", "flat", "up_enriched", "flat_enriched"}

\* C1 (as the spec states it): at the end of a run in which every scheduled
\* symbol's history fetch either stayed empty on every attempt or returned a
\* well-formed series, success_count is the number of symbols whose fetch
\* returned data and fail_count the number whose fetch stayed empty, whichever
\* strategy is active.
C1_CountsFollowFetches ==
    (/\ phase = "done"
     /\ \A c \in Scheduled : ReturnedData(c) => WellFormed(c))
    => /\ success_count = Cardinality({c \in Scheduled : ReturnedData(c)})
       /\ fail_count = Cardinality({c \in Scheduled : ~ReturnedData(c)})

\* C2: at run end every entry of a strategy's list is a scheduled symbol whose
\* job completed without fault, the strategy is enabled, and its predicate
\* returned True on that symbol's data.
C2_MatchesAreSound ==
    phase \in {"report", "done"} =>
        \A s \in StrategyNames : \A i \in 1..Len(results[s]) :
            LET c == results[s][i]
            IN  /\ c \in Scheduled
                /\ job[c].st = "Done"
                /\ ~job[c].fault
                /\ StrategyEnabled(s)
                /\ CallPredicate(s, job[c].df) = "True"

C2_Witness ==
    /\ phase = "done"
    /\ cfg.max_workers > 1
    /\ Len(results["volume_up"]) = 1
    /\ Len(stock_list) = 2

\* the job left the retry loop
LeftFetching(c) == job[c].st \notin {"Idle", "Pending", "Fetching"}
FailedForNoData(c) == job[c].st = "Failed" /\ ~job[c].fault
BudgetExhausted(c) == Len(fetchLog[c]) = cfg.retry_count /\ StaysEmpty(c)

\* the retry loop, with Fails(c) for "the job of c is marked Failed"
RetryBudget(Fails(_)) ==
    \A c \in Symbols :
        /\ Len(fetchLog[c]) <= cfg.retry_count
        /\ \A i \in 1..(Len(fetchLog[c]) - 1) : fetchLog[c][i] = EmptyDf
        /\ job[c].st = "Fetching" => (StaysEmpty(c) /\ (BudgetExhausted(c) => cfg.retry_count = 0))
        /\ LeftFetching(c) => (Fails(c) <=> BudgetExhausted(c))
        /\ (LeftFetching(c) /\ cfg.retry_count = 0) => (fetchLog[c] = <<>> /\ Fails(c))
        /\ (Fails(c) /\ c \in yielded) => tally[c] = [success |-> 0, fail |-> 1]

MarkedFailed(c) == job[c].st = "Failed"

\* C3 as the spec states it: a job fetches history at most retry_count times,
\* never again after a non-empty result, and it is marked Failed, adding one
\* to the failure counter, exactly when all retry_count attempts came back
\* empty; with retry_count = 0 there is no attempt and the job fails.
C3_FailedOnlyForNoData == RetryBudget(MarkedFailed)

\* C3, amended: the same, where the failure that goes with the exhausted
\* budget is the one of the fetch stage (the job returns without being
\* enriched or evaluated); a job whose fetch gave data can still end Failed
\* through a caught exception.
C3_RetryBudget == RetryBudget(FailedForNoData)

C3_Witness ==
    \E c \in Symbols :
        /\ cfg.retry_count = 2
        /\ FailedForNoData(c)
        /\ Len(fetchLog[c]) = 2
        /\ c \in yielded
        /\ fail_count = 1

\* what a job that ran to Done contributes: one entry per strategy whose block
\* gave True
OwnMatches(c, s) == IF RunBlock(s, job[c].df) = "True" THEN 1 ELSE 0

AllCollected == \A c \in Scheduled : Finished(c) /\ c \in yielded

\* what is claimed of a job in which an exception counts (Counts(c)): the
\* job ends Failed, the symbol has no match and is counted as failed exactly
\* once, the run is not ended by it
Contained(Counts(_)) ==
    \A c \in Symbols : Counts(c) =>
        /\ Finished(c) => job[c].st = "Failed"
        /\ phase # "aborted"
        /\ \A s \in StrategyNames : Occurrences(results[s], c) = 0
        /\ c \in yielded => tally[c] = [success |-> 0, fail |-> 1]

\* at run end every job is collected and every job that ran to Done has
\* exactly its own matches in the lists
OthersUntouched ==
    phase = "done" =>
        /\ AllCollected
        /\ \A c \in Scheduled : job[c].st = "Done" =>
            \A s \in StrategyNames : Occurrences(results[s], c) = OwnMatches(c, s)

RaisedIn(c) == job[c].raised
ReachedBoundary(c) == job[c].fault

\* C4 as the spec states it: any exception raised while a symbol is processed,
\* in the fetch, in enrichment or in a predicate, is caught at the worker
\* boundary and the symbol is counted as failed exactly once; the run is not
\* terminated, every other job runs to Done or Failed, and no other symbol's
\* matches change.
C4_AnyExceptionFailsTheSymbol ==
    /\ []Contained(RaisedIn)
    /\ []OthersUntouched
    /\ ((\E c \in Symbols : job[c].raised) ~> (phase = "done"))

\* C4, amended: the same of every exception that leaves a step of the job
\* (enrichment or a predicate call).  An exception raised inside the history
\* fetch does not: the gateway catches it and hands back an empty series,
\* which is retried like any empty result, so that the symbol can still
\* succeed.
C4_FaultIsContained ==
    /\ []Contained(ReachedBoundary)
    /\ [](\A c \in Symbols : (job[c].raised /\ ~job[c].fault) =>
            \E i \in 1..Len(fetchLog[c]) : fetchLog[c][i] = EmptyDf)
    /\ []OthersUntouched
    /\ ((\E c \in Symbols : job[c].raised) ~> (phase = "done"))

C4_Witness ==
    /\ phase = "done"
    /\ \E c, d \in Scheduled :
        /\ job[c].fault
        /\ job[d].st = "Done"
        /\ job[d].raised
        /\ Occurrences(results["volume_up"], d) = 1

\* the stage of the spec's job state machine a job is in (a symbol not yet
\* submitted is Pending)
Stage(j) == IF j.st = "Idle" THEN "Pending" ELSE j.st

EdgesOfSpec ==
    {<<"Pending", "Fetching">>, <<"Fetching", "Enriching">>,
     <<"Enriching", "Evaluating">>, <<"Evaluating", "Done">>,
     <<"Fetching", "Failed">>,
     <<"Evaluating", "ErrorCaught">>, <<"ErrorCaught", "Failed">>}

EdgesOfCode == EdgesOfSpec \cup {<<"Enriching", "ErrorCaught">>}

MovesAlong(edges) ==
    \A c \in Symbols :
        Stage(job'[c]) # Stage(job[c]) => <<Stage(job[c]), Stage(job'[c])>> \in edges

\* no job is enriched or evaluated on an empty series, and a collected job is
\* counted once: as a success iff it ended Done, as a failure iff it ended Failed
StagesAreConsistent ==
    /\ \A c \in Symbols :
        /\ job[c].st \in {"Enriching", "Evaluating", "Done"} => job[c].df # EmptyDf
        /\ c \in yielded =>
            /\ Finished(c)
            /\ tally[c].success = (IF job[c].st = "Done" THEN 1 ELSE 0)
            /\ tally[c].fail = (IF job[c].st = "Failed" THEN 1 ELSE 0)
    /\ success_count = Cardinality({c \in yielded : job[c].st = "Done"})
    /\ fail_count = Cardinality({c \in yielded : job[c].st = "Failed"})

\* C5 as the spec states it: a job only moves along Pending -> Fetching ->
\* Enriching -> Evaluating -> Done, Fetching -> Failed, or Evaluating ->
\* ErrorCaught -> Failed; Done and Failed are terminal; no job is enriched or
\* evaluated on an empty series; it is counted as a success iff it ends Done and
\* as a failure iff it ends Failed.
C5_StateMachineOfSpec ==
    /\ [][MovesAlong(EdgesOfSpec)]_vars
    /\ []StagesAreConsistent

\* C5, amended: the same, with the edge Enriching -> ErrorCaught added: the
\* try block that catches a fault of evaluation also covers enrichment.
C5_StateMachineOfCode ==
    /\ [][MovesAlong(EdgesOfCode)]_vars
    /\ []StagesAreConsistent

C5_Witness ==
    /\ phase = "done"
    /\ \E c, d \in Scheduled :
        /\ job[c].st = "Failed" /\ job[c].fault /\ job[c].df = "bad"
        /\ job[d].st = "Done"

RunComplete ==
    /\ phase = "done"
    /\ \A c \in Scheduled :
        /\ Finished(c)
        /\ c \in yielded
        /\ tally[c].success + tally[c].fail = 1
    /\ success_count + fail_count = Len(stock_list)
    /\ reported = ReportLines(results)

\* C6: the run terminates: either universe acquisition fails and the run ends
\* there, or every submitted job reaches Done or Failed, is collected exactly
\* once, and the report and the counts are produced.
C6_RunTerminates == <>(phase = "aborted" \/ RunComplete)

C6_Witness ==
    /\ RunComplete
    /\ success_count = 1
    /\ fail_count = 1
    /\ cfg.max_workers = 1

\* C7: when universe acquisition succeeds the run reaches the report, and the
\* report has a line for every enabled strategy, with its number of matches
\* (zero for an empty list).
C7_EveryStrategyReported ==
    /\ [](phase = "done" =>
            \A s \in StrategyNames : StrategyEnabled(s) => <<s, Len(results[s])>> \in reported)
    /\ ((acquired \in {"cache", "provider"}) ~> (phase = "done"))

C7_Witness ==
    /\ phase = "done"
    /\ fail_count = 2
    /\ \E s \in StrategyNames : StrategyEnabled(s) /\ <<s, 0>> \in reported

\* C8: when universe acquisition fails the run ends there: no job is
\* submitted, nothing is collected or reported.
C8_NoUniverseNoRun ==
    acquired = "failed" =>
        /\ phase = "aborted"
        /\ stock_list = <<>>
        /\ nsub = 0
        /\ \A c \in Symbols : job[c].st = "Idle"
        /\ results = EmptyResults
        /\ reported = {}
        /\ success_count = 0 /\ fail_count = 0

C8_Witness == acquired = "failed" /\ phase = "aborted"

(***************************************************************************)
(* The cache store on its own: any caller may put and get under any key,   *)
(* the clock advances, files get corrupted on disk, and the cache is       *)
(* cleared.  At most MaxOps calls are made while the clock runs to         *)
(* MaxClock.                                                               *)
(***************************************************************************)
\* the codes the calls are made for
ProbeSymbols == {1, 2}

HistKeys ==
    {<<1, 0 - HistoryDays, 0, a>> : a \in Adjusts}
    \cup {<<2, 1 - HistoryDays, 1, DefaultAdjust>>}

HistPayloads == {None, EmptyDf, "flat_unsorted"}
Bundles == {NoneDict, EmptyDict, Dict(Parts, {}), Dict(Parts, {"indicator"})}
ListPayloads == {NoneList, EmptyList, ListDf(Universe(1)), ListDf(Universe(MaxSymbols))}

\* the record of the latest effective put under key k
Remember(f, k, payload, t) ==
    [x \in DOMAIN f \cup {k} |-> IF x = k THEN [payload |-> payload, at |-> t] ELSE f[x]]

Forget(f, keys) == [x \in DOMAIN f \ keys |-> f[x]]

CacheInit ==
    /\ now = 0
    /\ histFiles = EmptyDir
    /\ fundFiles = EmptyDir
    /\ listFiles = EmptyDir
    /\ cfg = [active_strategy |-> "volume_up", fund_enabled |-> FALSE,
              retry_count |-> MaxRetry, max_workers |-> MaxWorkers,
              adjust |-> DefaultAdjust]
    /\ RunIdle
    /\ ProbeIdle

\* the file a call with these key parts works on, and what the call finds
\* there: nothing, a file pickle.load raises on, or a readable file
PathOf(kind, key) ==
    CASE kind = "history" -> _get_history_cache_path(key[1], key[2], key[3], key[4])
      [] kind = "fundamental" -> _get_fundamental_cache_path(key[1])
      [] OTHER -> key

DirOf(kind) ==
    CASE kind = "history" -> histFiles
      [] kind = "fundamental" -> fundFiles
      [] kind = "list" -> listFiles
      [] OTHER -> EmptyDir

Found(kind, key) ==
    IF kind = "all"
    THEN IF DOMAIN histFiles \cup DOMAIN fundFiles \cup DOMAIN listFiles = {}
         THEN "absent" ELSE "present"
    ELSE IF kind \notin {"history", "fundamental", "list"} THEN "none"
    ELSE IF PathOf(kind, key) \notin DOMAIN DirOf(kind) THEN "absent"
    ELSE IF DirOf(kind)[PathOf(kind, key)].ok THEN "readable"
    ELSE "corrupt"

Called(call) ==
    /\ ops < MaxOps
    /\ ops' = ops + 1
    /\ last' = call
    /\ UNCHANGED racers

PutHistory ==
    \E k \in HistKeys, df \in HistPayloads :
        LET empty == df = None \/ df = EmptyDf
        IN  /\ Called([op |-> "put", kind |-> "history", key |-> k, empty |-> empty, ret |-> None,
                       found |-> Found("history", k), called |-> FALSE, calls |-> <<>>])
            /\ histFiles' = cache_stock_history(histFiles, df, k[1], k[2], k[3], k[4], now)
            /\ stored' = IF empty THEN stored
                         ELSE [stored EXCEPT !.history = Remember(@, k, df, now)]
            /\ UNCHANGED <<fundFiles, listFiles, now, runVars>>

GetHistory ==
    \E k \in HistKeys :
        LET r == cache_get_stock_history(histFiles, k[1], k[2], k[3], k[4])
        IN  /\ Called([op |-> "get", kind |-> "history", key |-> k, empty |-> FALSE, ret |-> r.ret,
                       found |-> Found("history", k), called |-> FALSE, calls |-> <<>>])
            /\ histFiles' = r.files
            /\ UNCHANGED <<fundFiles, listFiles, now, runVars, stored>>

PutFundamental ==
    \E symbol \in ProbeSymbols, fundamentals \in Bundles :
        LET empty == fundamentals.py = "None" \/ fundamentals.keys = {}
        IN  /\ Called([op |-> "put", kind |-> "fundamental", key |-> <<symbol>>,
                       empty |-> empty, ret |-> None,
                       found |-> Found("fundamental", <<symbol>>), called |-> FALSE, calls |-> <<>>])
            /\ fundFiles' = cache_stock_fundamental(fundFiles, fundamentals, symbol, now)
            /\ stored' = IF empty THEN stored
                         ELSE [stored EXCEPT !.fundamental = Remember(@, <<symbol>>, fundamentals, now)]
            /\ UNCHANGED <<histFiles, listFiles, now, runVars>>

GetFundamental ==
    \E symbol \in ProbeSymbols :
        LET r == cache_get_stock_fundamental(fundFiles, symbol, now)
        IN  /\ Called([op |-> "get", kind |-> "fundamental", key |-> <<symbol>>,
                       empty |-> FALSE, ret |-> r.ret,
                       found |-> Found("fundamental", <<symbol>>), called |-> FALSE, calls |-> <<>>])
            /\ fundFiles' = r.files
            /\ UNCHANGED <<histFiles, listFiles, now, runVars, stored>>

\* the list's key part is the calendar day of the call
PutList ==
    \E df \in ListPayloads :
        LET empty == df.py = "None" \/ df.rows = <<>>
        IN  /\ Called([op |-> "put", kind |-> "list", key |-> <<Today(now)>>,
                       empty |-> empty, ret |-> None,
                       found |-> Found("list", <<Today(now)>>), called |-> FALSE, calls |-> <<>>])
            /\ listFiles' = cache_stock_list(listFiles, df, now)
            /\ stored' = IF empty THEN stored
                         ELSE [stored EXCEPT !.list = Remember(@, <<Today(now)>>, df, now)]
            /\ UNCHANGED <<histFiles, fundFiles, now, runVars>>

GetList ==
    LET r == cache_get_stock_list(listFiles, now)
    IN  /\ Called([op |-> "get", kind |-> "list", key |-> <<Today(now)>>,
                   empty |-> FALSE, ret |-> r.ret,
                       found |-> Found("list", <<Today(now)>>), called |-> FALSE, calls |-> <<>>])
        /\ listFiles' = r.files
        /\ UNCHANGED <<histFiles, fundFiles, now, runVars, stored>>

\* the count clear_expired_cache logs: the files it removed
ExpiredCount(days, t) ==
    Cardinality(DOMAIN histFiles \ DOMAIN clear_expired_cache(histFiles, days, t))
    + Cardinality(DOMAIN fundFiles \ DOMAIN clear_expired_cache(fundFiles, days, t))
    + Cardinality(DOMAIN listFiles \ DOMAIN clear_expired_cache(listFiles, days, t))

\* stock_data.clear_cache(days): every file, or the files older than days
ClearCache ==
    \E days \in {NoDays, 0} :
        /\ Called([op |-> "clear", kind |-> "all", key |-> <<days>>, empty |-> FALSE,
                   ret |-> IF days = NoDays THEN None ELSE ExpiredCount(days, now),
                   found |-> Found("all", <<days>>), called |-> FALSE, calls |-> <<>>])
        /\ histFiles' = clear_cache(histFiles, days, now)
        /\ fundFiles' = clear_cache(fundFiles, days, now)
        /\ listFiles' = clear_cache(listFiles, days, now)
        /\ stored' = NothingStored
        /\ UNCHANGED <<now, runVars>>

\* a file of the cache directory is damaged on disk: pickle.load will raise
Damage(files, path) == [files EXCEPT ![path].ok = FALSE]

Corrupt ==
    /\ ops < MaxOps
    /\ \/ \E path \in DOMAIN histFiles :
            /\ histFiles' = Damage(histFiles, path)
            /\ stored' = [stored EXCEPT !.history = Forget(@,
                            {k \in DOMAIN @ : _get_history_cache_path(k[1], k[2], k[3], k[4]) = path})]
            /\ UNCHANGED <<fundFiles, listFiles>>
       \/ \E path \in DOMAIN fundFiles :
            /\ fundFiles' = Damage(fundFiles, path)
            /\ stored' = [stored EXCEPT !.fundamental = Forget(@,
                            {k \in DOMAIN @ : _get_fundamental_cache_path(k[1]) = path})]
            /\ UNCHANGED <<histFiles, listFiles>>
       \/ \E path \in DOMAIN listFiles :
            /\ listFiles' = Damage(listFiles, path)
            /\ stored' = [stored EXCEPT !.list = Forget(@,
                            {k \in DOMAIN @ : _get_stock_list_cache_path(@[k].at) = path})]
            /\ UNCHANGED <<histFiles, fundFiles>>
    /\ last' = NoCall
    /\ UNCHANGED <<now, runVars, ops, racers>>

Tick ==
    /\ now < MaxClock
    /\ now' = now + 1
    /\ last' = NoCall
    /\ UNCHANGED <<histFiles, fundFiles, listFiles, runVars, stored, ops, racers>>

CacheNext ==
    \/ PutHistory
    \/ GetHistory
    \/ PutFundamental
    \/ GetFundamental
    \/ PutList
    \/ GetList
    \/ ClearCache
    \/ Corrupt
    \/ Tick

CacheSpec == CacheInit /\ [][CacheNext]_vars

(***************************************************************************)
(* Properties of the cache store.                                          *)
(***************************************************************************)
\* the payload stored under the key of the last call, with its put still in
\* effect: no clear and no corruption since
Kept == stored[last.kind][last.key]

HasKept == last.kind \in DOMAIN stored /\ last.key \in DOMAIN stored[last.kind]

\* C9: a get returns a payload equal to the one last put under the same key
\* parts when no clear or corruption came between; for the list the get is on
\* the calendar day of the put, for fundamentals less than a day after the
\* put, and the dict handed back has no timestamp key.
C9_PutThenGet ==
    (last.op = "get" /\ HasKept) =>
        CASE last.kind = "history" -> last.ret = Kept.payload
          [] last.kind = "list" -> last.ret = Kept.payload
          [] last.kind = "fundamental" ->
                AgeDays(now, Kept.at) <= FreshDays =>
                    /\ last.ret = Kept.payload
                    /\ "timestamp" \notin last.ret.keys
                    /\ last.ret.timestamp = NoStamp

C9_Witness ==
    /\ last.op = "get"
    /\ last.kind = "fundamental"
    /\ HasKept
    /\ now > Kept.at
    /\ AgeDays(now, Kept.at) <= FreshDays
    /\ last.ret = Dict(Parts, {"indicator"})

\* C10: a put of None or of an empty payload (an empty table; a dict without
\* keys) changes no file of the cache: what was a miss stays a miss, what
\* was stored stays as it was.
C10_EmptyPutIsNoOp ==
    [][(last'.op = "put" /\ last'.empty) => UNCHANGED <<histFiles, fundFiles, listFiles>>]_vars

C10_Witness ==
    /\ last.op = "put"
    /\ last.empty
    /\ last.kind = "fundamental"
    /\ last.key \in DOMAIN fundFiles
    /\ <<2>> \notin DOMAIN fundFiles

(***************************************************************************)
(* The gateway on its own: callers fetch the list, histories and           *)
(* fundamentals through utils/stock_data.py while the clock advances,      *)
(* files get corrupted and the cache is cleared.  stored remembers, per    *)
(* kind and key, the non-empty result a fetch obtained from the provider.  *)
(***************************************************************************)
HistProvided == {Raise, EmptyDf, "up", "flat_unsorted"}
FundProvided == {{}, {"indicator"}, {"balance_sheet", "cash_flow"}, Parts}
ListProvided == {RaiseList, EmptyList, ListDf(Universe(MaxSymbols))}

FetchHistory ==
    \E k \in HistKeys, provided \in HistProvided :
        LET r == get_stock_history(histFiles, k[1], k[2], k[3], k[4], now, provided)
            empty == provided = Raise \/ provided = EmptyDf
        IN  /\ Called([op |-> "fetch", kind |-> "history", key |-> k, empty |-> empty,
                       ret |-> r.ret, found |-> Found("history", k), called |-> r.called,
                       calls |-> r.calls])
            /\ histFiles' = r.files
            /\ stored' = IF r.called /\ ~empty
                         THEN [stored EXCEPT !.history = Remember(@, k, r.ret, now)]
                         ELSE stored
            /\ UNCHANGED <<fundFiles, listFiles, now, runVars>>

FetchFundamentals ==
    \E symbol \in ProbeSymbols, provided \in FundProvided :
        LET r == get_stock_fundamentals(fundFiles, symbol, now, provided)
            empty == provided = {}
        IN  /\ Called([op |-> "fetch", kind |-> "fundamental", key |-> <<symbol>>,
                       empty |-> empty, ret |-> r.ret,
                       found |-> Found("fundamental", <<symbol>>), called |-> r.called,
                       calls |-> r.calls])
            /\ fundFiles' = r.files
            /\ stored' = IF r.called /\ ~empty
                         THEN [stored EXCEPT !.fundamental = Remember(@, <<symbol>>, r.ret, now)]
                         ELSE stored
            /\ UNCHANGED <<histFiles, listFiles, now, runVars>>

FetchList ==
    \E provided \in ListProvided :
        LET r == get_stock_list(listFiles, now, provided)
            empty == provided.py = "raise" \/ provided.rows = <<>>
        IN  /\ Called([op |-> "fetch", kind |-> "list", key |-> <<Today(now)>>,
                       empty |-> empty, ret |-> r.ret, found |-> Found("list", <<Today(now)>>), called |-> r.called, calls |-> <<>>])
            /\ listFiles' = r.files
            /\ stored' = IF r.called /\ ~empty
                         THEN [stored EXCEPT !.list = Remember(@, <<Today(now)>>, r.ret, now)]
                         ELSE stored
            /\ UNCHANGED <<histFiles, fundFiles, now, runVars>>

GatewayNext ==
    \/ FetchHistory
    \/ FetchFundamentals
    \/ FetchList
    \/ ClearCache
    \/ Corrupt
    \/ Tick

GatewaySpec == CacheInit /\ [][GatewayNext]_vars

(***************************************************************************)
(* Properties of the gateway and of the cache behind it.                   *)
(***************************************************************************)
\* the file of the key of the last call
LastPath ==
    CASE last.kind = "history" ->
            _get_history_cache_path(last.key[1], last.key[2], last.key[3], last.key[4])
      [] last.kind = "fundamental" -> _get_fundamental_cache_path(last.key[1])
      [] last.kind = "list" -> <<last.key[1]>>

LastDir ==
    CASE last.kind = "history" -> histFiles
      [] last.kind = "fundamental" -> fundFiles
      [] last.kind = "list" -> listFiles

\* a fetch made now for the key of the last call would call the provider
RefetchCallsProvider ==
    CASE last.kind = "history" ->
            get_stock_history(histFiles, last.key[1], last.key[2], last.key[3],
                              last.key[4], now, "up").called
      [] last.kind = "fundamental" ->
            get_stock_fundamentals(fundFiles, last.key[1], now, Parts).called
      [] last.kind = "list" ->
            get_stock_list(listFiles, now, ListDf(Universe(MaxSymbols))).called

\* C11 (as the spec states it): after a history fetch in which the provider
\* gave an empty series or raised, and after a fundamentals fetch in which all
\* four sub-fetches failed, there is no cache entry for the key and the next
\* fetch for the key calls the provider again.
C11_FailureNeverCached ==
    (/\ last.op = "fetch"
     /\ last.kind \in {"history", "fundamental"}
     /\ last.called
     /\ last.empty)
    => /\ LastPath \notin DOMAIN LastDir
       /\ RefetchCallsProvider

\* the age, in ticks, of the put that is in effect under the key of the last call
KeptAge == now - Kept.at

\* C12: a get of a fundamentals entry written more than a day ago is a miss
\* and leaves the file as it is; a get of an entry written less than a day
\* ago returns the payload.
C12_StaleIsMissFreshIsHit ==
    (last.op = "get" /\ last.kind = "fundamental" /\ HasKept) =>
        /\ KeptAge > TicksPerDay =>
            /\ last.ret = NoneDict
            /\ LastPath \in DOMAIN fundFiles
            /\ fundFiles[LastPath].ok
            /\ fundFiles[LastPath].obj.timestamp = Kept.at
            /\ fundFiles[LastPath].obj.data = Kept.payload.data
        /\ KeptAge < TicksPerDay => last.ret = Kept.payload

C12_Witness ==
    /\ last.op = "get"
    /\ last.kind = "fundamental"
    /\ HasKept
    /\ KeptAge > TicksPerDay
    /\ last.ret = NoneDict
    /\ LastPath \in DOMAIN fundFiles

\* what a get hands back for a miss
Miss(kind) ==
    CASE kind = "history" -> None
      [] kind = "fundamental" -> NoneDict
      [] kind = "list" -> NoneList

\* a step that creates a file is a put
OnlyPutsCreate ==
    (\/ DOMAIN histFiles' \ DOMAIN histFiles # {}
     \/ DOMAIN fundFiles' \ DOMAIN fundFiles # {}
     \/ DOMAIN listFiles' \ DOMAIN listFiles # {})
    => last'.op = "put"

\* C13: for each kind, a get that finds a file it cannot unpickle returns a
\* miss (it raises nothing) and removes the file; a get that finds no file
\* returns a miss and creates none, and only a put creates one, so that gets
\* on the key miss until the next put; a gateway fetch for the key then calls
\* the provider.
C13_CorruptIsMissAndDeleted ==
    /\ []((last.op = "get" /\ last.found \in {"corrupt", "absent"}) =>
            /\ last.ret = Miss(last.kind)
            /\ LastPath \notin DOMAIN LastDir
            /\ RefetchCallsProvider)
    /\ [][OnlyPutsCreate]_vars

C13_Witness ==
    /\ last.op = "get"
    /\ last.kind = "fundamental"
    /\ last.found = "corrupt"
    /\ last.ret = NoneDict
    /\ fundFiles = EmptyDir

\* the fetch of this step has a result of an earlier fetch to fall back on:
\* the provider gave it, and no clear, corruption or expiry came since
HitExpected ==
    /\ last'.op = "fetch"
    /\ last'.key \in DOMAIN stored[last'.kind]
    /\ last'.kind = "fundamental" =>
           ~(AgeDays(now, stored.fundamental[last'.key].at) > FreshDays)

\* C14: once a fetch of the list, of a history or of fundamentals has got a
\* non-empty result from the provider, a later fetch with the same key, with
\* no clear, corruption or expiry in between, calls no provider and returns
\* the payload the first fetch returned.
C14_SecondFetchIsServedFromCache ==
    [][HitExpected =>
        /\ ~last'.called
        /\ last'.ret = stored[last'.kind][last'.key].payload]_vars

C14_Witness ==
    /\ last.op = "fetch"
    /\ last.kind = "history"
    /\ last.found = "readable"
    /\ ~last.called
    /\ HasKept
    /\ Kept.at < now
    /\ last.ret = Kept.payload

\* every get is a miss and every gateway fetch would call the provider
AllMissAt(t) ==
    /\ \A k \in HistKeys :
        /\ cache_get_stock_history(histFiles, k[1], k[2], k[3], k[4]).ret = None
        /\ get_stock_history(histFiles, k[1], k[2], k[3], k[4], t, "up").called
    /\ \A symbol \in ProbeSymbols :
        /\ cache_get_stock_fundamental(fundFiles, symbol, t).ret = NoneDict
        /\ get_stock_fundamentals(fundFiles, symbol, t, Parts).called
    /\ cache_get_stock_list(listFiles, t).ret = NoneList
    /\ get_stock_list(listFiles, t, ListDf(Universe(MaxSymbols))).called

\* C15: right after clear_cache() without days, whatever was cached and
\* however old it was, a get of any history key, any symbol's fundamentals
\* or any day's list is a miss, and a gateway fetch for it calls the provider.
C15_ClearAllEmptiesEveryKind ==
    (last.op = "clear" /\ last.key = <<NoDays>>) =>
        \A t \in now..MaxClock : AllMissAt(t)

C15_Witness ==
    /\ last.op = "clear"
    /\ last.key = <<NoDays>>
    /\ last.found = "present"
    /\ now > 0
    /\ AllMissAt(now)

\* the file was last modified more than days whole days before t
OlderThan(file, days, t) == t - file.mtime >= (days + 1) * TicksPerDay

\* the step removes from a directory the files older than days, and only those
SweptBy(before, after, days) ==
    /\ DOMAIN after = {p \in DOMAIN before : ~OlderThan(before[p], days, now)}
    /\ \A p \in DOMAIN after : after[p] = before[p]

\* C16: clear_cache(days) removes, in each of the three directories, exactly
\* the files whose modification time lies more than days whole days back, and
\* leaves every other file as it was.
C16_ClearOlderThanRemovesExactlyTheOld ==
    [][(last'.op = "clear" /\ last'.key # <<NoDays>>) =>
        /\ SweptBy(histFiles, histFiles', last'.key[1])
        /\ SweptBy(fundFiles, fundFiles', last'.key[1])
        /\ SweptBy(listFiles, listFiles', last'.key[1])]_vars

C16_Witness ==
    /\ last.op = "clear"
    /\ last.key = <<0>>
    /\ last.ret > 0
    /\ DOMAIN histFiles \cup DOMAIN fundFiles \cup DOMAIN listFiles # {}

(***************************************************************************)
(* The cache under concurrent callers.  Each racer is a thread inside one  *)
(* call: a DataCache get, a DataCache put, or stock_data.get_stock_history *)
(* (a get, the provider call, a put).  A step is one statement that        *)
(* touches the file system: os.path.exists, open + pickle.load, os.remove, *)
(* open(path, 'wb'), pickle.dump.  Between open(path, 'wb') and            *)
(* pickle.dump the file is there and empty, so that pickle.load raises on  *)
(* it; a file removed while a writer has it open takes the writer's dump   *)
(* with it.                                                                *)
(***************************************************************************)
RaceKinds == {"history", "fundamental"}

RaceKey(kind, symbol) ==
    IF kind = "history" THEN <<symbol, 0 - HistoryDays, 0, DefaultAdjust>> ELSE <<symbol>>

\* what a put is called with
RaceData(kind) ==
    IF kind = "history" THEN {EmptyDf, "up"} ELSE {Dict(Parts, {"indicator"})}

\* what the provider does when the gateway calls it
RaceProvided == {Raise, "up", "flat_unsorted"}

Busy(w) == racers[w].pc # "idle"

\* the racers inside a call on the same kind and key
Rivals(w, kind, key) ==
    {v \in Racers \ {w} : Busy(v) /\ racers[v].kind = kind /\ racers[v].key = key}

SetDir(kind, files) ==
    /\ histFiles' = IF kind = "history" THEN files ELSE histFiles
    /\ fundFiles' = IF kind = "fundamental" THEN files ELSE fundFiles
    /\ UNCHANGED listFiles

\* the file right after open(path, 'wb')
Truncated(kind, t) == [ok |-> FALSE, obj |-> Miss(kind), mtime |-> t]

\* where a call goes on after its get missed
AfterMiss(r) == IF r.op = "fetch" THEN "provider" ELSE "return"

\* a thread enters a call; a put of nothing returns at once
Begin(w) ==
    /\ racers[w].pc = "idle"
    /\ ops < MaxOps
    /\ ops' = ops + 1
    /\ \E op \in {"get", "put", "fetch"}, kind \in RaceKinds, symbol \in ProbeSymbols :
        /\ op = "fetch" => kind = "history"
        /\ \E data \in (IF op = "put" THEN RaceData(kind) ELSE {Miss(kind)}) :
            LET key == RaceKey(kind, symbol)
                first == IF op # "put" THEN "exists"
                         ELSE IF kind = "history" /\ data = EmptyDf THEN "return"
                         ELSE "open"
            IN  racers' = [v \in Racers |->
                    IF v = w
                    THEN [IdleRacer EXCEPT !.pc = first, !.op = op, !.kind = kind,
                                           !.key = key, !.data = data, !.ret = Miss(kind),
                                           !.alone = Rivals(w, kind, key) = {}]
                    ELSE IF v \in Rivals(w, kind, key)
                    THEN [racers[v] EXCEPT !.alone = FALSE]
                    ELSE racers[v]]
    /\ UNCHANGED <<cacheVars, runVars, last, stored>>

\* if os.path.exists(cache_path)
GetExists(w) ==
    LET r == racers[w]
    IN  /\ r.pc = "exists"
        /\ racers' = [racers EXCEPT ![w] =
                IF PathOf(r.kind, r.key) \in DOMAIN DirOf(r.kind)
                THEN [r EXCEPT !.pc = "load"]
                ELSE [r EXCEPT !.pc = AfterMiss(r), !.ret = Miss(r.kind)]]
        /\ UNCHANGED <<cacheVars, runVars, last, stored, ops>>

\* open(cache_path, 'rb') and pickle.load: both raise into the except clause
GetLoad(w) ==
    LET r == racers[w]
        path == PathOf(r.kind, r.key)
        dir == DirOf(r.kind)
        got == IF r.kind = "history"
               THEN cache_get_stock_history(dir, r.key[1], r.key[2], r.key[3], r.key[4]).ret
               ELSE cache_get_stock_fundamental(dir, r.key[1], now).ret
    IN  /\ r.pc = "load"
        /\ racers' = [racers EXCEPT ![w] =
                IF path \notin DOMAIN dir \/ ~dir[path].ok
                THEN [r EXCEPT !.pc = "except"]
                ELSE [r EXCEPT !.ret = got,
                               !.pc = IF r.op = "fetch" /\ (got = None \/ got = EmptyDf)
                                      THEN "provider" ELSE "return"]]
        /\ UNCHANGED <<cacheVars, runVars, last, stored, ops>>

\* except Exception: if os.path.exists(cache_path)
GetExcept(w) ==
    LET r == racers[w]
    IN  /\ r.pc = "except"
        /\ racers' = [racers EXCEPT ![w] =
                IF PathOf(r.kind, r.key) \in DOMAIN DirOf(r.kind)
                THEN [r EXCEPT !.pc = "remove"]
                ELSE [r EXCEPT !.pc = AfterMiss(r), !.ret = Miss(r.kind)]]
        /\ UNCHANGED <<cacheVars, runVars, last, stored, ops>>

\* os.remove(cache_path); return None.  If the file is gone by now os.remove
\* raises out of the get; the gateway's except turns that into an empty frame
GetRemove(w) ==
    LET r == racers[w]
        path == PathOf(r.kind, r.key)
        dir == DirOf(r.kind)
    IN  /\ r.pc = "remove"
        /\ IF path \in DOMAIN dir
           THEN /\ SetDir(r.kind, RemoveFile(dir, path))
                /\ racers' = [v \in Racers |->
                        IF v = w
                        THEN [r EXCEPT !.pc = AfterMiss(r), !.ret = Miss(r.kind)]
                        ELSE IF v \in Rivals(w, r.kind, r.key) /\ racers[v].pc = "dump"
                        THEN [racers[v] EXCEPT !.unlinked = TRUE]
                        ELSE racers[v]]
           ELSE /\ racers' = [racers EXCEPT ![w] =
                        [r EXCEPT !.pc = "return", !.raised = TRUE,
                                  !.ret = IF r.op = "fetch" THEN EmptyDf ELSE Miss(r.kind)]]
                /\ UNCHANGED <<histFiles, fundFiles, listFiles>>
        /\ UNCHANGED <<now, runVars, last, stored, ops>>

\* ak.stock_zh_a_hist and the normalisation of its frame
Provider(w) ==
    LET r == racers[w]
    IN  /\ r.pc = "provider"
        /\ \E provided \in RaceProvided :
            racers' = [racers EXCEPT ![w] =
                IF provided = Raise \/ provided = EmptyDf
                THEN [r EXCEPT !.pc = "return", !.called = TRUE, !.ret = EmptyDf]
                ELSE [r EXCEPT !.pc = "open", !.called = TRUE,
                               !.data = SortIndex(provided), !.ret = SortIndex(provided)]]
        /\ UNCHANGED <<cacheVars, runVars, last, stored, ops>>

\* open(cache_path, 'wb'); the fundamentals timestamp is taken just before
PutOpen(w) ==
    LET r == racers[w]
        path == PathOf(r.kind, r.key)
        dir == DirOf(r.kind)
    IN  /\ r.pc = "open"
        /\ SetDir(r.kind, [p \in DOMAIN dir \cup {path} |->
                                IF p = path THEN Truncated(r.kind, now) ELSE dir[p]])
        /\ racers' = [racers EXCEPT ![w] = [r EXCEPT !.pc = "dump", !.at = now]]
        /\ UNCHANGED <<now, runVars, last, stored, ops>>

\* pickle.dump(df, f) and the close of the file
PutDump(w) ==
    LET r == racers[w]
        dir == DirOf(r.kind)
    IN  /\ r.pc = "dump"
        /\ IF r.unlinked
           THEN UNCHANGED <<histFiles, fundFiles, listFiles, stored>>
           ELSE /\ SetDir(r.kind,
                       IF r.kind = "history"
                       THEN cache_stock_history(dir, r.data, r.key[1], r.key[2], r.key[3],
                                                r.key[4], r.at)
                       ELSE cache_stock_fundamental(dir, r.data, r.key[1], r.at))
                /\ stored' = [stored EXCEPT ![r.kind] = Remember(@, r.key, r.data, r.at)]
        /\ racers' = [racers EXCEPT ![w] = [r EXCEPT !.pc = "return", !.wrote = TRUE]]
        /\ UNCHANGED <<now, runVars, last, ops>>

\* the call returns to its caller
Finish(w) ==
    /\ racers[w].pc = "return"
    /\ racers' = [racers EXCEPT ![w] = IdleRacer]
    /\ UNCHANGED <<cacheVars, runVars, last, stored, ops>>

Racer(w) ==
    \/ Begin(w)
    \/ GetExists(w)
    \/ GetLoad(w)
    \/ GetExcept(w)
    \/ GetRemove(w)
    \/ Provider(w)
    \/ PutOpen(w)
    \/ PutDump(w)
    \/ Finish(w)

RaceNext ==
    \/ \E w \in Racers : Racer(w)
    \/ Corrupt
    \/ Tick

RaceSpec == CacheInit /\ [][RaceNext]_vars

(***************************************************************************)
(* Properties of the cache under concurrent callers.                       *)
(***************************************************************************)
\* the paths whose file is not the same before and after
Changed(before, after) ==
    {p \in DOMAIN before \cup DOMAIN after :
        ~(p \in DOMAIN before /\ p \in DOMAIN after /\ before[p] = after[p])}

\* the path of the call racer w is in, if it is of this kind
OwnPath(w, kind) ==
    IF racers[w].kind = kind THEN {PathOf(kind, racers[w].key)} ELSE {}

\* a get that no call on the same key overlapped returns, at the statement
\* that ends it, a miss or the payload of the latest put under its key
GetIsMissOrLastPut(w) ==
    LET r == racers'[w]
    IN  (racers[w].pc # "return" /\ r.pc = "return" /\ r.op = "get" /\ r.alone) =>
            /\ ~r.raised
            /\ \/ r.ret = Miss(r.kind)
               \/ /\ r.key \in DOMAIN stored'[r.kind]
                  /\ r.ret = stored'[r.kind][r.key].payload

\* a statement of a racer changes no file but the one of its own key
TouchesOwnFileOnly ==
    \A w \in Racers :
        racers'[w].pc # racers[w].pc =>
            /\ Changed(histFiles, histFiles') \subseteq OwnPath(w, "history")
            /\ Changed(fundFiles, fundFiles') \subseteq OwnPath(w, "fundamental")
            /\ Changed(listFiles, listFiles') = {}

\* C17: whatever the interleaving of the statements of concurrent gets and
\* puts, a get whose key no other caller works on returns a miss or exactly
\* the payload last put under that key, and no statement of a put or a get
\* (the removal of an unreadable file and the expiry miss included) changes
\* the file of another key or kind.
C17_DifferentKeysDoNotInterfere ==
    [][/\ \A w \in Racers : GetIsMissOrLastPut(w)
       /\ TouchesOwnFileOnly]_vars

C17_Witness ==
    /\ racers[1].pc = "return"
    /\ racers[1].op = "get"
    /\ racers[1].kind = "history"
    /\ racers[1].alone
    /\ racers[1].ret = "up"
    /\ racers[2].pc = "dump"
    /\ racers[2].kind = "history"
    /\ racers[2].key # racers[1].key

\* both racers have come to the end of a gateway fetch for one key, and the
\* two fetches overlapped
BothFetchedSameKey ==
    /\ \A w \in Racers : racers[w].pc = "return" /\ racers[w].op = "fetch" /\ ~racers[w].alone
    /\ racers[1].key = racers[2].key

\* what the racers dumped in these fetches
Written == {racers[w].data : w \in {v \in Racers : racers[v].wrote}}

\* the fetch got its frame from the provider call it made, or a whole frame
\* from the cache
GotProviderOrWholePayload(w) ==
    \/ racers[w].called
    \/ /\ ~racers[w].raised
       /\ racers[w].ret \in Frames

\* the file of the key holds the frame of one of the dumps (whether or not it
\* was damaged on disk afterwards)
HoldsOneOfTheWrites ==
    LET path == PathOf("history", racers[1].key)
    IN  /\ path \in DOMAIN histFiles
        /\ histFiles[path].obj \in Written

\* C18 (as the spec states it): when two workers fetch the same key at the
\* same time, each ends with provider data or a whole cached payload, and
\* once both have ended the cache holds a complete entry equal to what one of
\* them wrote.
C18_SameKeyRaceIsHarmless ==
    BothFetchedSameKey =>
        /\ \A w \in Racers : GotProviderOrWholePayload(w)
        /\ Written # {} => HoldsOneOfTheWrites

(***************************************************************************)
(* main.py lines 317-332 statement by statement: the main thread takes the *)
(* finished futures one at a time while the pool threads go on with the    *)
(* other jobs.                                                             *)
(***************************************************************************)
\* variant: the accumulators are extended before the lock is taken
CollectorSteps_ExtendFirst == <<"extend", "acquire", "release", "success">>

\* variant: the success counter is updated inside the with block
CollectorSteps_CountInside == <<"acquire", "extend", "success", "release">>

\* lines 322-325, the branch of a true local_results
CollectorSteps == <<"acquire", "extend", "release", "success">>

\* lines 326-327, the else branch
FailureSteps == <<"failure">>

Doing(kind) == collector.todo # <<>> /\ Head(collector.todo) = kind

\* for future in as_completed(...): local_results = future.result(); if local_results:
TakeFuture(c) ==
    /\ phase = "collect"
    /\ collector.future = 0
    /\ c \in Submitted \ yielded
    /\ Finished(c)
    /\ collector' = [future |-> c,
                     todo |-> IF Truthy(FutureResult(job[c]))
                              THEN CollectorSteps ELSE FailureSteps,
                     item |-> 1,
                     before |-> results]
    /\ UNCHANGED <<cacheVars, probe, phase, cfg, stock_list, nsub, job, yielded, results,
                   success_count, fail_count, reported, acquired, fetchLog, tally,
                   results_lock, progress_lock>>

\* with results_lock: (entry)
AcquireResults ==
    /\ Doing("acquire")
    /\ results_lock = "free"
    /\ results_lock' = "main"
    /\ collector' = [collector EXCEPT !.todo = Tail(@), !.before = results]
    /\ UNCHANGED <<cacheVars, probe, phase, cfg, stock_list, nsub, job, yielded, results,
                   success_count, fail_count, reported, acquired, fetchLog, tally,
                   progress_lock>>

\* for strategy, stocks in local_results.items(): results[strategy].extend(stocks)
ExtendItem ==
    /\ Doing("extend")
    /\ LET strategy == StrategyOrder[collector.item]
           stocks == FutureResult(job[collector.future]).val[strategy]
       IN  results' = [results EXCEPT ![strategy] = @ \o stocks]
    /\ collector' = IF collector.item < Len(StrategyOrder)
                    THEN [collector EXCEPT !.item = @ + 1]
                    ELSE [collector EXCEPT !.todo = Tail(@)]
    /\ UNCHANGED <<cacheVars, probe, phase, cfg, stock_list, nsub, job, yielded,
                   success_count, fail_count, reported, acquired, fetchLog, tally,
                   results_lock, progress_lock>>

\* with results_lock: (exit)
ReleaseResults ==
    /\ Doing("release")
    /\ results_lock' = "free"
    /\ collector' = [collector EXCEPT !.todo = Tail(@)]
    /\ UNCHANGED <<cacheVars, probe, phase, cfg, stock_list, nsub, job, yielded, results,
                   success_count, fail_count, reported, acquired, fetchLog, tally,
                   progress_lock>>

\* success_count += 1
CountSuccess ==
    /\ Doing("success")
    /\ success_count' = success_count + 1
    /\ tally' = [tally EXCEPT ![collector.future].success = @ + 1]
    /\ collector' = [collector EXCEPT !.todo = Tail(@)]
    /\ UNCHANGED <<cacheVars, probe, phase, cfg, stock_list, nsub, job, yielded, results,
                   fail_count, reported, acquired, fetchLog, results_lock, progress_lock>>

\* fail_count += 1
CountFailure ==
    /\ Doing("failure")
    /\ fail_count' = fail_count + 1
    /\ tally' = [tally EXCEPT ![collector.future].fail = @ + 1]
    /\ collector' = [collector EXCEPT !.todo = Tail(@)]
    /\ UNCHANGED <<cacheVars, probe, phase, cfg, stock_list, nsub, job, yielded, results,
                   success_count, reported, acquired, fetchLog, results_lock, progress_lock>>

\* finally: pbar.update(1), and on to the next future
PbarUpdate ==
    /\ collector.future # 0
    /\ collector.todo = <<>>
    /\ yielded' = yielded \cup {collector.future}
    /\ phase' = PhaseAfter(stock_list, nsub, yielded \cup {collector.future})
    /\ collector' = IdleCollector
    /\ UNCHANGED <<cacheVars, probe, cfg, stock_list, nsub, job, results, success_count,
                   fail_count, reported, acquired, fetchLog, tally, results_lock,
                   progress_lock>>

LockNext ==
    \/ Prepare
    \/ AcquireUniverse
    \/ Submit
    \/ Worker
    \/ \E c \in Symbols : TakeFuture(c)
    \/ AcquireResults
    \/ ExtendItem
    \/ ReleaseResults
    \/ CountSuccess
    \/ CountFailure
    \/ PbarUpdate
    \/ Report

LockSpec == Init /\ [][LockNext]_vars

(***************************************************************************)
(* Properties of the collection loop.                                      *)
(***************************************************************************)
\* the accumulators change only inside the with block
ResultsOnlyUnderLock ==
    results' # results => results_lock = "main" /\ results_lock' = "main"

\* the with block is entered with nothing of the job appended yet and left
\* with all of its matches appended
OneSectionPerJob ==
    /\ (results_lock = "free" /\ results_lock' = "main") =>
            /\ collector.future # 0
            /\ results = collector.before
    /\ (results_lock = "main" /\ results_lock' = "free") =>
            results = Extend(collector.before, FutureResult(job[collector.future]).val)

\* a statement run by the thread that holds the lock (the pool threads,
\* which never take it, are the ones that change job) reads and writes no
\* cache file and makes no fetch
HolderDoesNoIO ==
    (results_lock = "main" /\ job' = job) =>
        /\ cacheVars' = cacheVars
        /\ fetchLog' = fetchLog

\* C19: the shared per-strategy accumulators are changed only while
\* results_lock is held, the matches of one job are all appended between one
\* taking and one release of the lock, and the thread holding the lock makes
\* no provider call and no cache read or write before it releases it.
C19_AccumulatorsUnderResultsLock ==
    [][/\ ResultsOnlyUnderLock
       /\ OneSectionPerJob
       /\ HolderDoesNoIO]_vars

C19_Witness ==
    /\ results_lock = "main"
    /\ collector.item > 1
    /\ results # collector.before
    /\ \E c \in Symbols : job[c].st = "Fetching"

CounterUpdated == success_count' # success_count \/ fail_count' # fail_count

NowExecuting == {c \in Symbols : Executing(c)}

\* no symbol is in the schedule twice
ScheduledOnce ==
    \A i, j \in 1..Len(stock_list) : stock_list[i] = stock_list[j] => i = j

\* executor.submit is called for the next symbol of the schedule, which no
\* call was made for before, and while the loop over the results has not begun
SubmitsInTurn ==
    nsub' # nsub =>
        /\ nsub' = nsub + 1
        /\ job[stock_list[nsub']].st = "Idle"
        /\ yielded = {}

\* a future handed to the loop body is one whose job has ended
CollectsFinished == \A c \in yielded' \ yielded : Finished(c)

\* C21: never more than max_workers jobs are executing; every scheduled
\* symbol is submitted exactly once, and all of them before the first result
\* is collected; a job is collected when it has ended, wherever it stands in
\* the order of submission.
C21_BoundedPoolSubmitAllThenCollect ==
    /\ [](/\ Cardinality(NowExecuting) <= cfg.max_workers
          /\ ScheduledOnce
          /\ yielded # {} => (nsub = Len(stock_list) /\ Submitted = Scheduled)
          /\ yielded \subseteq Submitted)
    /\ [][SubmitsInTurn /\ CollectsFinished]_vars

C21_Witness ==
    /\ Len(stock_list) = 2
    /\ cfg.max_workers = 2
    /\ yielded = {stock_list[2]}
    /\ Executing(stock_list[1])

(***************************************************************************)
(* Properties of the fundamentals acquisition.                             *)
(***************************************************************************)
\* each of the four sub-fetches is made once, in the order of the code
EachAttemptedOnce(calls) ==
    /\ Len(calls) = Cardinality(Parts)
    /\ \A part \in Parts : Cardinality({i \in DOMAIN calls : calls[i] = part}) = 1

\* the bundle has the four tables: the provider's for the parts it has data
\* for, an empty one for the others
BundleOf(ret, provided) ==
    /\ ret.py = "dict"
    /\ ret.keys = Parts
    /\ ret.data = provided

\* C22: when get_stock_fundamentals misses the cache, whichever of the four
\* sub-fetches fail, all four are made, each once, and the bundle returned
\* has an empty table for exactly the failed parts and the provider's table
\* for the others.
C22_SubFetchesFailApart ==
    /\ (last.op = "fetch" /\ last.kind = "fundamental" /\ last.called) =>
            /\ EachAttemptedOnce(last.calls)
            /\ last.ret.py = "dict"
            /\ last.ret.keys = Parts
            /\ (last.ret.data = {}) = last.empty
    /\ \A provided \in SUBSET Parts, symbol \in ProbeSymbols :
            LET r == get_stock_fundamentals(fundFiles, symbol, now, provided)
            IN  r.called => /\ EachAttemptedOnce(r.calls)
                            /\ BundleOf(r.ret, provided)

C22_Witness ==
    /\ last.op = "fetch"
    /\ last.kind = "fundamental"
    /\ last.called
    /\ last.ret = Dict(Parts, {"balance_sheet", "cash_flow"})
    /\ last.calls = SubFetchOrder

(***************************************************************************)
(* Properties of the history gateway.                                      *)
(***************************************************************************)
\* C23: get_stock_history hands its caller a frame and never an exception;
\* when the provider raises or answers with no rows the frame is empty; and
\* one call of get_stock_history asks the provider at most once.
C23_HistoryFailsToEmptyWithoutRetry ==
    /\ (last.op = "fetch" /\ last.kind = "history") =>
            /\ last.ret # Raise
            /\ Len(last.calls) <= 1
            /\ last.called <=> Len(last.calls) = 1
            /\ (last.called /\ last.empty) => last.ret = EmptyDf
    /\ \A k \in HistKeys, provided \in {Raise, EmptyDf} :
            LET r == get_stock_history(histFiles, k[1], k[2], k[3], k[4], now, provided)
            IN  /\ r.ret # Raise
                /\ Len(r.calls) <= 1
                /\ r.called => r.ret = EmptyDf

C23_Witness ==
    /\ last.op = "fetch"
    /\ last.kind = "history"
    /\ last.called
    /\ last.empty
    /\ last.ret = EmptyDf
    /\ Len(last.calls) = 1

\* the rows of the frame are in ascending date order
Ascending(df) == df \in Frames

BlockAt(c) == StrategyOrder[NextBlock(job[c].blk)]
AtBlock(c) ==
    /\ job[c].st = "Evaluating"
    /\ NextBlock(job[c].blk) <= Len(StrategyOrder)

\* C25: for every enabled strategy the worker's call of the registered
\* predicate, made with that strategy's configured parameter set, completes
\* with a boolean, for all five registered strategies.
C25_EveryCallCompletesWithBoolean ==
    \A c \in Scheduled :
        (AtBlock(c) /\ StrategyEnabled(BlockAt(c)))
            => RunBlock(BlockAt(c), job[c].df) \in {"True", "False"}

\* the position of a strategy's block in process_single_stock
BlockIndex(s) == CHOOSE i \in 1..Len(StrategyOrder) : StrategyOrder[i] = s

\* the job of c has called the predicate of strategy s: it is past the block,
\* or it stopped in the block because the call raised
PredicateRun(c, s) ==
    \/ job[c].blk > BlockIndex(s)
    \/ job[c].blk = BlockIndex(s) /\ job[c].st \in {"ErrorCaught", "Failed"}

\* the job of c has ended, and its history fetch had given a well-formed series
EndedWithData(c) == job[c].st \in {"Done", "Failed"} /\ WellFormed(c)

OnlyTheNamedPredicate ==
    cfg.active_strategy # "all" =>
        /\ \A c \in Scheduled : AtBlock(c) => BlockAt(c) = cfg.active_strategy
        /\ \A s \in StrategyNames \ {cfg.active_strategy} :
                /\ results[s] = <<>>
                /\ \A c \in Scheduled : job[c].local[s] = <<>>

AllRunsEveryPredicate ==
    cfg.active_strategy = "all" =>
        \A c \in Scheduled : EndedWithData(c) =>
            \A s \in StrategyNames : StrategyEnabled(s) => PredicateRun(c, s)

\* C26: the active-strategy setting is the same for every symbol of the run;
\* with a single strategy name only that predicate is evaluated and every other
\* strategy's list stays empty; with "all" every registered predicate is run
\* for each symbol that has data (the fundamentals ones when fundamentals
\* acquisition is enabled).
C26_ActiveStrategySelectsThePredicates ==
    /\ [](OnlyTheNamedPredicate /\ AllRunsEveryPredicate)
    /\ [][cfg'.active_strategy = cfg.active_strategy]_vars

\* the job of c stopped in a block of one of the two fundamentals strategies
FailedInFundamentalsBlock(c) ==
    /\ job[c].st \in {"ErrorCaught", "Failed"}
    /\ job[c].raised
    /\ job[c].blk \in {BlockIndex(s) : s \in FundamentalStrategies}

FundamentalsBlocksSkip ==
    /\ \A s \in FundamentalStrategies :
            /\ results[s] = <<>>
            /\ \A c \in Scheduled : job[c].local[s] = <<>>
    /\ \A c \in Scheduled :
            /\ (AtBlock(c) /\ BlockAt(c) \in FundamentalStrategies)
                    => RunBlock(BlockAt(c), job[c].df) = "skip"
            /\ ~FailedInFundamentalsBlock(c)

\* C27: when fundamentals acquisition is disabled for the run, the
\* fundamental-quality and deep-value strategies add no symbol to their lists,
\* their predicates (the only callers of the fundamentals fetch) are not
\* called and the fundamentals cache is not touched, and no job fails in
\* their blocks, for every active-strategy setting.
C27_DisabledFundamentalsAreSkipped ==
    /\ [](~cfg.fund_enabled => FundamentalsBlocksSkip)
    /\ [][~cfg.fund_enabled => fundFiles' = fundFiles]_vars

C27_Witness ==
    /\ ~cfg.fund_enabled
    /\ cfg.active_strategy = "cigarette_butt"
    /\ phase = "done"
    /\ Len(stock_list) = 2
    /\ \A c \in Scheduled :
            /\ job[c].st = "Done"
            /\ job[c].blk = BlockIndex("cigarette_butt") + 1
            /\ job[c].df = "up_enriched"
    /\ success_count = 2
    /\ results["cigarette_butt"] = <<>>

(***************************************************************************)
(* The strategy predicates on series of bars.  A series is [cols, bars]:   *)
(* the columns the frame has, and its rows in date order.  Percentages     *)
(* (pct_chg and the thresholds on it) are held in tenths of a percent,     *)
(* the volume-ratio threshold in tenths, prices and amounts as they are.   *)
(* A derived value is [defined, num, den]: the quotient num / den, or      *)
(* NaN when defined is FALSE.                                              *)
(***************************************************************************)
MaxTail == 4

NaN == [defined |-> FALSE, num |-> 0, den |-> 1]
Quotient(num, den) == [defined |-> TRUE, num |-> num, den |-> den]

\* a comparison with NaN is False
GreaterEq(x, tenths) == x.defined /\ x.num * 10 >= tenths * x.den

RequiredColumns == {"open", "close", "high", "low", "volume", "amount", "pct_chg"}
DerivedColumns == {"volume_ma5", "volume_ratio"}

Bar(open, close, low, pct_chg, amount, volume) ==
    [open |-> open, close |-> close, high |-> IF open > close THEN open ELSE close,
     low |-> low, pct_chg |-> pct_chg, amount |-> amount, volume |-> volume,
     volume_ratio |-> NaN]

\* variant: a row without five volumes behind it, or with a zero 5-day mean,
\* gets the ratio 0
volume_ratio_ZeroWhenUndefined(bars, i) ==
    IF i < 5 THEN Quotient(0, 1)
    ELSE LET sum == bars[i - 4].volume + bars[i - 3].volume + bars[i - 2].volume
                    + bars[i - 1].volume + bars[i].volume
         IN  IF sum = 0 THEN Quotient(0, 1) ELSE Quotient(5 * bars[i].volume, sum)

\* df['volume'] / df['volume'].rolling(window=5).mean() at row i: the rolling
\* mean is NaN on the first four rows, and 0 / 0 is NaN
volume_ratio(bars, i) ==
    IF i < 5 THEN NaN
    ELSE LET sum == bars[i - 4].volume + bars[i - 3].volume + bars[i - 2].volume
                    + bars[i - 1].volume + bars[i].volume
         IN  IF sum = 0 THEN NaN ELSE Quotient(5 * bars[i].volume, sum)

\* calculate_technical_indicators on a series of bars: the frame as it is when
\* it is empty or lacks a required column, else with the derived columns
Enriched(df) ==
    IF df.bars = <<>> THEN df
    ELSE IF ~(RequiredColumns \subseteq df.cols) THEN df
    ELSE [cols |-> df.cols \cup DerivedColumns,
          bars |-> [i \in 1..Len(df.bars) |->
                        [df.bars[i] EXCEPT !.volume_ratio = volume_ratio(df.bars, i)]]]

\* df.iloc[-n:]
Trailing(bars, n) ==
    IF Len(bars) <= n THEN bars ELSE SubSeq(bars, Len(bars) - n + 1, Len(bars))

\* the defaults of is_volume_up's def, and the values of STRATEGY_CONFIG
VolumeUpDefaults ==
    [min_pct_change |-> 0, max_pct_change |-> 20, min_amount |-> 200000000,
     volume_ratio |-> 20]

\* is_volume_up(df, **p).  Inside the try a read of a column the frame lacks
\* raises KeyError, which the except turns into False.
is_volume_up(df, p) ==
    IF df.bars = <<>> \/ Len(df.bars) < 6 THEN "False"
    ELSE LET latest_day == df.bars[Len(df.bars)]
             inRange == /\ latest_day.pct_chg >= p.min_pct_change
                        /\ latest_day.pct_chg <= p.max_pct_change
             reads == IF "pct_chg" \notin df.cols THEN {"pct_chg"}
                      ELSE IF inRange THEN {"pct_chg", "amount", "volume_ratio"}
                      ELSE {"pct_chg", "close", "open", "amount", "volume_ratio"}
             condition1 == inRange \/ latest_day.close < latest_day.open
             condition2 == latest_day.amount >= p.min_amount
             condition3 == GreaterEq(latest_day.volume_ratio, p.volume_ratio)
         IN  IF ~(reads \subseteq df.cols) THEN "False"
             ELSE IF condition1 /\ condition2 /\ condition3 THEN "True"
             ELSE "False"

Abs(x) == IF x < 0 THEN 0 - x ELSE x

\* abs(day['close'] - day['open']) / day['open'] >= 0.03, for a positive open
SpreadAtLeast3Percent(day) == Abs(day.close - day.open) * 100 >= 3 * day.open

\* lines 62-87 for the big-up day at row i of recent_df (rows counted from 1)
ValidPlatform(recent, i) ==
    LET big_day == recent[i]
        next_day == recent[i + 1]
    IN  /\ ~(\/ next_day.open <= big_day.close
             \/ next_day.close <= next_day.open
             \/ SpreadAtLeast3Percent(next_day))
        /\ \A k \in 2..3 :
                LET day == recent[i + k]
                    prev_day == recent[i + k - 1]
                IN  ~(\/ day.open <= prev_day.close
                      \/ day.close <= day.open
                      \/ SpreadAtLeast3Percent(day)
                      \/ Abs(day.pct_chg) > 50)

\* df[df.index <= index].iloc[-10:] for the day at row i of recent_df
TempDf(df, i) ==
    LET offset == Len(df.bars) - Len(Trailing(df.bars, 20))
    IN  [cols |-> df.cols, bars |-> Trailing(SubSeq(df.bars, 1, offset + i), 10)]

\* variant: the nested check is made with thresholds other than the defaults
\* (a wider percent-change range, a lower turnover, no volume-ratio floor)
PassesVolumeUp_OtherThresholds(df, i) ==
    is_volume_up(TempDf(df, i),
                 [min_pct_change |-> 0, max_pct_change |-> 100, min_amount |-> 100000000,
                  volume_ratio |-> 0]) = "True"

\* variant: the nested check accepts every big-up day
PassesVolumeUp_Always(df, i) == TRUE

\* line 59: is_volume_up(temp_df), called with the defaults of its def
PassesVolumeUp(df, i) == is_volume_up(TempDf(df, i), VolumeUpDefaults) = "True"

\* the for loop of lines 48-91 from row i of recent_df on
RECURSIVE ScanBigUpDays(_, _, _)
ScanBigUpDays(df, recent, i) ==
    IF i > Len(recent) THEN "False"
    ELSE IF ~(recent[i].pct_chg > 95) THEN ScanBigUpDays(df, recent, i + 1)
    ELSE IF (i - 1) + 3 >= Len(recent) THEN ScanBigUpDays(df, recent, i + 1)
    ELSE IF ~PassesVolumeUp(df, i) THEN ScanBigUpDays(df, recent, i + 1)
    ELSE IF ~({"open", "close"} \subseteq df.cols) THEN Raise
    ELSE IF ValidPlatform(recent, i) THEN "True"
    ELSE ScanBigUpDays(df, recent, i + 1)

\* is_landing_platform(df): no try, so the KeyError of a column the frame
\* lacks leaves the function
is_landing_platform(df) ==
    IF df.bars = <<>> \/ Len(df.bars) < 20 THEN "False"
    ELSE IF "pct_chg" \notin df.cols THEN Raise
    ELSE ScanBigUpDays(df, Trailing(df.bars, 20), 1)

\* variant: the lowest close of the window instead of its lowest low
Lowest_OfCloses(bars) ==
    CHOOSE m \in {bars[i].close : i \in DOMAIN bars} :
        \A i \in DOMAIN bars : m <= bars[i].close

Lowest(bars) ==
    CHOOSE m \in {bars[i].low : i \in DOMAIN bars} :
        \A i \in DOMAIN bars : m <= bars[i].low

\* is_high_narrow_flag(df): no try either
is_high_narrow_flag(df) ==
    IF df.bars = <<>> \/ Len(df.bars) < 60 THEN "False"
    ELSE LET latest == df.bars[Len(df.bars)]
             period_data == SubSeq(df.bars, Len(df.bars) - 23, Len(df.bars) - 10)
             big_up_days == {i \in DOMAIN period_data : period_data[i].pct_chg >= 95}
         IN  IF Len(period_data) < 14 THEN "False"
             ELSE IF ~({"low", "close"} \subseteq df.cols) THEN Raise
             ELSE IF latest.close * 10 < 19 * Lowest(period_data) THEN "False"
             ELSE IF "pct_chg" \notin df.cols THEN Raise
             ELSE IF Cardinality(big_up_days) < 2 THEN "False"
             ELSE IF \E i \in 1..(Len(period_data) - 1) :
                        i \in big_up_days /\ (i + 1) \in big_up_days
                  THEN "True"
             ELSE "False"

(***************************************************************************)
(* The two fundamentals predicates on the bundle get_stock_fundamentals    *)
(* hands them.  A bundle is [keys, tables]; a table is [cols, rows], each  *)
(* row a function from the table's columns to values [defined, num, den].  *)
(* A table is empty when it has no row or no column.                       *)
(***************************************************************************)
Num(n) == Quotient(n, 1)

\* Python's comparisons on floats: False whenever a side is NaN
Lt(x, y) == x.defined /\ y.defined /\ x.num * y.den < y.num * x.den
Le(x, y) == x.defined /\ y.defined /\ x.num * y.den <= y.num * x.den
Ge(x, y) == Le(y, x)

Minus(x, y) ==
    IF x.defined /\ y.defined
    THEN Quotient(x.num * y.den - y.num * x.den, x.den * y.den)
    ELSE NaN

\* x / y >= 1/2 on floats: x / 0 is inf, -inf or NaN
QuotientAtLeastHalf(x, y) ==
    /\ x.defined /\ y.defined
    /\ IF y.num = 0 THEN x.num > 0
       ELSE IF y.num > 0 THEN 2 * x.num * y.den >= y.num * x.den
       ELSE 2 * x.num * y.den <= y.num * x.den

NoTable == [cols |-> {}, rows |-> <<>>]
TableEmpty(table) == table.rows = <<>> \/ table.cols = {}

\* the {} get_stock_fundamentals returns from its except
NoBundle == [keys |-> {}, tables |-> [k \in Parts |-> NoTable]]

\* is_good_fundamental, after fundamentals = get_stock_fundamentals(symbol)
is_good_fundamental(fundamentals) ==
    IF fundamentals.keys = {} \/ "indicator" \notin fundamentals.keys
       \/ TableEmpty(fundamentals.tables["indicator"])
    THEN "False"
    ELSE LET indicator == fundamentals.tables["indicator"]
             latest_indicator == indicator.rows[Len(indicator.rows)]
         IN  IF ~({"trade_date", "pe", "pb", "roe"} \subseteq indicator.cols) THEN "False"
             ELSE IF ~(Lt(Num(0), latest_indicator["pe"]) /\ Le(latest_indicator["pe"], Num(20)))
                  THEN "False"
             ELSE IF ~(Lt(Num(0), latest_indicator["pb"]) /\ Le(latest_indicator["pb"], Num(10)))
                  THEN "False"
             ELSE IF Lt(latest_indicator["roe"], Num(15)) THEN "False"
             ELSE "True"

\* the column names the loops of lines 83-89 and 124-127 of cigarette_butt.py
\* pick out of the names a table can have here
ColumnsPicked(what) ==
    CASE what = "total_assets" -> {"TOTAL_ASSETS"}
      [] what = "total_current_assets" -> {"TOTAL_CURRENT_ASSETS"}
      [] what = "total_liabilities" -> {"TOTAL_LIABILITIES"}
      [] what = "cash_flow" -> {"OPERATE_CASH_FLOW"}

\* is_cigarette_butt, after fundamentals = get_stock_fundamentals(symbol)
is_cigarette_butt(fundamentals) ==
    LET indicator == fundamentals.tables["indicator"]
        balance_sheet == fundamentals.tables["balance_sheet"]
        cash_flow == fundamentals.tables["cash_flow"]
    IN  IF fundamentals.keys = {} THEN "False"
        ELSE IF "indicator" \notin fundamentals.keys \/ TableEmpty(indicator)
                \/ "pb" \notin indicator.cols
             THEN "False"
        ELSE LET latest_indicator == indicator.rows[Len(indicator.rows)]
             IN  IF Ge(latest_indicator["pb"], Quotient(1, 2)) THEN "False"
                 ELSE IF "balance_sheet" \notin fundamentals.keys \/ TableEmpty(balance_sheet)
                      THEN "False"
                 ELSE IF \/ balance_sheet.cols \cap ColumnsPicked("total_assets") = {}
                         \/ balance_sheet.cols \cap ColumnsPicked("total_current_assets") = {}
                         \/ balance_sheet.cols \cap ColumnsPicked("total_liabilities") = {}
                      THEN "False"
                 ELSE LET balance == balance_sheet.rows[1]
                          total_assets == balance["TOTAL_ASSETS"]
                          total_current_assets == balance["TOTAL_CURRENT_ASSETS"]
                          total_liabilities == balance["TOTAL_LIABILITIES"]
                          ncav == Minus(total_current_assets, total_liabilities)
                      IN  IF "total_mv" \notin indicator.cols THEN "False"
                          ELSE IF Ge(latest_indicator["total_mv"], ncav) THEN "False"
                          ELSE IF QuotientAtLeastHalf(total_liabilities, total_assets)
                               THEN "False"
                          ELSE IF "cash_flow" \notin fundamentals.keys \/ TableEmpty(cash_flow)
                               THEN "False"
                          ELSE IF cash_flow.cols \cap ColumnsPicked("cash_flow") = {}
                               THEN "False"
                          ELSE IF Le(cash_flow.rows[1]["OPERATE_CASH_FLOW"], Num(0))
                               THEN "False"
                          ELSE "True"

(***************************************************************************)
(* The predicates applied directly.  A series is a run of equal bars       *)
(* followed by at most MaxTail bars appended one by one; it may lack a     *)
(* column.  Each predicate is applied as process_single_stock applies it:  *)
(* to the series calculate_technical_indicators returns.  `last` holds the *)
(* series and the latest call.                                             *)
(***************************************************************************)
Quiet == Bar(100, 100, 100, 0, 100000000, 15)
Dry == Bar(100, 100, 100, 0, 200000000, 0)
GapUp == Bar(120, 110, 105, 96, 200000000, 100)
LimitUp == Bar(101, 110, 100, 100, 200000000, 100)
Step1 == Bar(111, 112, 110, 20, 200000000, 40)
Step2 == Bar(113, 114, 112, 50, 200000000, 10)
Step3 == Bar(115, 116, 114, 10, 199999999, 100)
Wide == Bar(113, 117, 112, 30, 200000000, 100)
Jump == Bar(113, 114, 112, 51, 200000000, 100)

PadBars == {Quiet, Dry}
TailBars == {GapUp, LimitUp, Step1, Step2, Step3, Wide, Jump}
PadLengths == {2, 16, 17, 56}
MissingColumns == {{}, {"pct_chg"}, {"volume"}, {"low"}}

VolumeUpParams ==
    {VolumeUpDefaults,
     [min_pct_change |-> 0, max_pct_change |-> 100, min_amount |-> 100000000,
      volume_ratio |-> 0]}

IndicatorTable(pe, pb10, roe, total_mv) ==
    [cols |-> {"trade_date", "pe", "pb", "roe", "total_mv"},
     rows |-> <<[trade_date |-> Num(1), pe |-> Num(pe), pb |-> Quotient(pb10, 10),
                 roe |-> Num(roe), total_mv |-> Num(total_mv)]>>]
BalanceTable(assets, current, liabilities) ==
    [cols |-> {"TOTAL_ASSETS", "TOTAL_CURRENT_ASSETS", "TOTAL_LIABILITIES"},
     rows |-> <<[TOTAL_ASSETS |-> Num(assets), TOTAL_CURRENT_ASSETS |-> Num(current),
                 TOTAL_LIABILITIES |-> Num(liabilities)]>>]
CashFlowTable(operate) ==
    [cols |-> {"OPERATE_CASH_FLOW"}, rows |-> <<[OPERATE_CASH_FLOW |-> Num(operate)]>>]

Bundle(indicator, balance_sheet, cash_flow) ==
    [keys |-> Parts,
     tables |-> [k \in Parts |->
                    CASE k = "indicator" -> indicator
                      [] k = "balance_sheet" -> balance_sheet
                      [] k = "cash_flow" -> cash_flow
                      [] OTHER -> NoTable]]

\* what get_stock_fundamentals can hand a predicate: {} after an exception,
\* every sub-fetch failed, only the indicator table, no indicator table, all
BundlesGiven ==
    {NoBundle,
     Bundle(NoTable, NoTable, NoTable),
     Bundle(IndicatorTable(10, 4, 20, 50), NoTable, NoTable),
     Bundle(NoTable, BalanceTable(1000, 600, 100), CashFlowTable(10)),
     Bundle(IndicatorTable(10, 4, 20, 50), BalanceTable(1000, 600, 100), NoTable),
     Bundle(IndicatorTable(10, 4, 20, 50), BalanceTable(1000, 600, 100), CashFlowTable(10))}

\* the series `last` describes, as the provider's frame: pad equal bars, the
\* bars appended, then post equal bars
Series(l) ==
    [cols |-> RequiredColumns \ l.missing,
     bars |-> [i \in 1..l.pad |-> l.padBar] \o l.tail \o [i \in 1..l.post |-> l.postBar]]

NoPredicateCall(pad, padBar, missing) ==
    [op |-> "none", pad |-> pad, padBar |-> padBar, missing |-> missing, tail |-> <<>>,
     post |-> 0, postBar |-> padBar,
     p |-> VolumeUpDefaults, fund |-> NoBundle, ret |-> None]

\* no run, no cache file, no call of the cache
PredicateIdle ==
    /\ now = 0
    /\ histFiles = EmptyDir
    /\ fundFiles = EmptyDir
    /\ listFiles = EmptyDir
    /\ cfg = [active_strategy |-> "all", fund_enabled |-> TRUE,
              retry_count |-> MaxRetry, max_workers |-> MaxWorkers,
              adjust |-> DefaultAdjust]
    /\ RunIdle
    /\ stored = NothingStored
    /\ ops = 0
    /\ racers = [w \in Racers |-> IdleRacer]

PredicateInit ==
    /\ PredicateIdle
    /\ last \in {NoPredicateCall(pad, padBar, missing) :
                    pad \in PadLengths, padBar \in PadBars, missing \in MissingColumns}

\* the series with one more bar before its trailing run, no call made on it
Appended(bar) ==
    /\ last' = [last EXCEPT !.tail = Append(@, bar), !.op = "none",
                            !.p = VolumeUpDefaults, !.fund = NoBundle, !.ret = None]
    /\ UNCHANGED <<cacheVars, runVars, stored, ops, racers>>

\* one more trading day
AppendBar ==
    /\ Len(last.tail) < MaxTail
    /\ \E bar \in TailBars : Appended(bar)

Applied(op, p, fund, ret) ==
    /\ last' = [last EXCEPT !.op = op, !.p = p, !.fund = fund, !.ret = ret]
    /\ UNCHANGED <<cacheVars, runVars, stored, ops, racers>>

CallVolumeUp ==
    \E p \in VolumeUpParams :
        Applied("is_volume_up", p, NoBundle, is_volume_up(Enriched(Series(last)), p))

CallLandingPlatform ==
    Applied("is_landing_platform", VolumeUpDefaults, NoBundle,
            is_landing_platform(Enriched(Series(last))))

CallHighNarrowFlag ==
    Applied("is_high_narrow_flag", VolumeUpDefaults, NoBundle,
            is_high_narrow_flag(Enriched(Series(last))))

\* the fundamentals predicates do not read the series: they are applied
\* before a bar is appended
CallGoodFundamental ==
    /\ last.tail = <<>>
    /\ \E fund \in BundlesGiven :
            Applied("is_good_fundamental", VolumeUpDefaults, fund, is_good_fundamental(fund))

CallCigaretteButt ==
    /\ last.tail = <<>>
    /\ \E fund \in BundlesGiven :
            Applied("is_cigarette_butt", VolumeUpDefaults, fund, is_cigarette_butt(fund))

PredicateNext ==
    \/ AppendBar
    \/ CallVolumeUp
    \/ CallLandingPlatform
    \/ CallHighNarrowFlag
    \/ CallGoodFundamental
    \/ CallCigaretteButt

PredicateSpec == PredicateInit /\ [][PredicateNext]_vars

(***************************************************************************)
(* Properties of the predicates.                                           *)
(***************************************************************************)
\* the series the latest call was made on, as the provider's frame
Given == Series(last)
LatestBar == Given.bars[Len(Given.bars)]

\* the sum of the latest five volumes of the series
LatestFiveVolumes ==
    LET n == Len(Given.bars)
    IN  Given.bars[n - 4].volume + Given.bars[n - 3].volume + Given.bars[n - 2].volume
        + Given.bars[n - 1].volume + Given.bars[n].volume

\* latest volume / 5-day average volume is defined and at least tenths / 10
RatioDefinedAndAtLeast(tenths) ==
    /\ RequiredColumns \subseteq Given.cols
    /\ Len(Given.bars) >= 5
    /\ LatestFiveVolumes > 0
    /\ 5 * LatestBar.volume * 10 >= tenths * LatestFiveVolumes

MomentumBreakout(p) ==
    /\ Len(Given.bars) >= 6
    /\ \/ p.min_pct_change <= LatestBar.pct_chg /\ LatestBar.pct_chg <= p.max_pct_change
       \/ LatestBar.close < LatestBar.open
    /\ LatestBar.amount >= p.min_amount
    /\ RatioDefinedAndAtLeast(p.volume_ratio)

First20 == IF Len(Given.bars) > 20 THEN Len(Given.bars) - 19 ELSE 1

\* bar d passes the momentum-breakout predicate, at its built-in thresholds, on
\* the (up to) 10 bars ending at d
MomentumBreakoutAt(d) ==
    /\ RequiredColumns \subseteq Given.cols
    /\ (IF d > 10 THEN 10 ELSE d) >= 6
    /\ \/ 0 <= Given.bars[d].pct_chg /\ Given.bars[d].pct_chg <= 20
       \/ Given.bars[d].close < Given.bars[d].open
    /\ Given.bars[d].amount >= 200000000
    /\ LET sum == Given.bars[d - 4].volume + Given.bars[d - 3].volume
                  + Given.bars[d - 2].volume + Given.bars[d - 1].volume
                  + Given.bars[d].volume
       IN  sum > 0 /\ 5 * Given.bars[d].volume >= 2 * sum

\* bar n opens above the previous close, closes above its own open, with
\* |close - open| / open < 3%
StepsUp(n) ==
    /\ Given.bars[n].open > Given.bars[n - 1].close
    /\ Given.bars[n].close > Given.bars[n].open
    /\ Abs(Given.bars[n].close - Given.bars[n].open) * 100 < 3 * Given.bars[n].open

ConsolidationBreakout ==
    /\ Len(Given.bars) >= 20
    /\ "pct_chg" \in Given.cols
    /\ \E d \in First20..Len(Given.bars) :
            /\ Given.bars[d].pct_chg > 95
            /\ d + 3 <= Len(Given.bars)
            /\ MomentumBreakoutAt(d)
            /\ StepsUp(d + 1)
            /\ \A n \in {d + 2, d + 3} :
                    StepsUp(n) /\ Abs(Given.bars[n].pct_chg) <= 50

BarsNeeded(op) ==
    CASE op = "is_volume_up" -> 6
      [] op = "is_landing_platform" -> 20
      [] op = "is_high_narrow_flag" -> 60
ColumnsRead(op) ==
    CASE op = "is_volume_up" -> RequiredColumns
      [] op = "is_landing_platform" -> RequiredColumns
      [] op = "is_high_narrow_flag" -> {"low", "close", "pct_chg"}

\* the tables a fundamentals predicate cannot do without
TablesRead(op) ==
    CASE op = "is_good_fundamental" -> {"indicator"}
      [] op = "is_cigarette_butt" -> {"indicator", "balance_sheet", "cash_flow"}

\* the input of the latest call is one of the degenerate ones
Degenerate ==
    IF last.op \in {"is_volume_up", "is_landing_platform", "is_high_narrow_flag"}
    THEN \/ Len(Given.bars) < BarsNeeded(last.op)
         \/ last.missing \cap ColumnsRead(last.op) # {}
    ELSE /\ last.op \in {"is_good_fundamental", "is_cigarette_butt"}
         /\ \E k \in TablesRead(last.op) : TableEmpty(last.fund.tables[k])

\* C28: every strategy predicate, given too few bars, a frame lacking a column
\* it reads, or an empty fundamentals table, returns false and raises nothing.
C28_DegenerateInputGivesFalse == Degenerate => last.ret = "False"

(***************************************************************************)
(* Properties of what a job hands to the accumulators.                     *)
(***************************************************************************)
Listed(c, s) == \E i \in 1..Len(results[s]) : results[s][i] = c

\* the matches the job of c had recorded in its local_results
RecordedBeforeEnd(c) == {s \in StrategyNames : job[c].local[s] # <<>>}

\* C37: a job's matches are all-or-nothing: a job that ends Failed contributes
\* nothing to any strategy accumulator, including matches recorded by
\* predicates that ran before the fault; a symbol is in some strategy's list
\* only if its job completed without a fault in any predicate.
C37_MatchesAreAllOrNothing ==
    \A c \in Scheduled : \A s \in StrategyNames :
        /\ (job[c].st \in {"ErrorCaught", "Failed"} \/ job[c].fault) => ~Listed(c, s)
        /\ Listed(c, s) => job[c].st = "Done" /\ ~job[c].fault

C37_Witness ==
    /\ phase = "done"
    /\ \E c \in Scheduled :
            /\ job[c].st = "Failed"
            /\ job[c].fault
            /\ RecordedBeforeEnd(c) = {"volume_up"}
            /\ c \in yielded
            /\ \A s \in StrategyNames : ~Listed(c, s)

\* C38: no match is lost or duplicated: at run end, for every scheduled symbol
\* whose job reached Done and every enabled strategy whose predicate returned
\* true for it, the symbol appears exactly once in that strategy's list, under
\* every worker interleaving and pool size.
C38_NoMatchLostOrDuplicated ==
    phase \in {"report", "done"} =>
        \A c \in Scheduled : \A s \in StrategyNames :
            (/\ job[c].st = "Done"
             /\ StrategyEnabled(s)
             /\ CallPredicate(s, job[c].df) = "True")
                => Occurrences(results[s], c) = 1

C38_Witness ==
    /\ phase = "done"
    /\ cfg.max_workers = 2
    /\ stock_list = <<1, 2>>
    /\ \A c \in Scheduled : job[c].st = "Done"
    /\ results["volume_up"] = <<2, 1>>

\* the nested check of is_landing_platform on each bar of the trailing 20 is
\* the momentum-breakout predicate at its built-in thresholds
NestedCheckUsesDefaults ==
    \A d \in First20..Len(Given.bars) :
        PassesVolumeUp(Enriched(Given), d - First20 + 1) <=> MomentumBreakoutAt(d)

\* C39: the consolidation-breakout predicate's nested momentum check is always
\* evaluated with the momentum predicate's built-in default thresholds
\* (percent-change in [0, 2], turnover 200,000,000, volume ratio 2.0) on the
\* trailing slice ending at the candidate day; consequently every
\* consolidation-breakout match has a big-up day (percent-change > 9.5) whose
\* close is below its open.
C39_NestedMomentumCheckUsesDefaults ==
    (last.op = "is_landing_platform" /\ Len(Given.bars) >= 20) =>
        /\ NestedCheckUsesDefaults
        /\ last.ret = "True" =>
                \E d \in First20..Len(Given.bars) :
                    /\ Given.bars[d].pct_chg > 95
                    /\ Given.bars[d].close < Given.bars[d].open
                    /\ MomentumBreakoutAt(d)

C39_Witness ==
    /\ last.op = "is_landing_platform"
    /\ last.ret = "True"
    /\ Len(Given.bars) = 21
    /\ Given.bars[18] = GapUp
    /\ \A d \in 2..21 : d # 18 => Given.bars[d].pct_chg <= 95

(***************************************************************************)
(* The high-narrow-flag predicate applied to series whose appended bars    *)
(* lie around the edges of the window it looks at: the bars appended are   *)
(* followed by a run of 9, 10, 22 or 23 equal bars, the last of which is   *)
(* the latest bar.                                                         *)
(***************************************************************************)
Calm == Bar(100, 100, 100, 0, 100000000, 15)
Surge == Bar(100, 110, 100, 95, 200000000, 100)
Almost == Bar(100, 110, 100, 94, 200000000, 100)
Dip == Bar(100, 110, 99, 95, 200000000, 100)
Top190 == Bar(180, 190, 150, 10, 200000000, 100)
Top189 == Bar(180, 189, 150, 10, 200000000, 100)

FlagBars == {Calm, Surge, Almost, Dip}
FlagLeads == {36, 46, 47}
FlagPosts == {9, 10, 22, 23}

FlagInit ==
    /\ PredicateIdle
    /\ last \in {[NoPredicateCall(lead, Calm, {}) EXCEPT !.post = post, !.postBar = top] :
                    lead \in FlagLeads, post \in FlagPosts, top \in {Top190, Top189}}

AppendFlagBar ==
    /\ Len(last.tail) < MaxTail
    /\ \E bar \in FlagBars : Appended(bar)

FlagNext ==
    \/ AppendFlagBar
    \/ CallHighNarrowFlag

FlagSpec == FlagInit /\ [][FlagNext]_vars

\* the 14 bars from the 24th-last to the 11th-last
FlagWindow == (Len(Given.bars) - 23)..(Len(Given.bars) - 10)

HighNarrowFlag ==
    /\ \E n \in FlagWindow :
            /\ \A m \in FlagWindow : Given.bars[n].low <= Given.bars[m].low
            /\ LatestBar.close * 10 >= 19 * Given.bars[n].low
    /\ \E n \in FlagWindow :
            /\ n + 1 \in FlagWindow
            /\ Given.bars[n].pct_chg >= 95
            /\ Given.bars[n + 1].pct_chg >= 95

\* C31: the high-narrow-flag predicate returns false for every series with
\* fewer than 60 bars whatever its values, and for a series with at least 60
\* bars returns true iff, over the 14 bars from the 24th-last to the 11th-last,
\* latest close divided by the window's minimum low is >= 1.9 and two adjacent
\* bars of the window both have percent-change >= 9.5.
C31_HighNarrowFlagIff ==
    last.op = "is_high_narrow_flag" =>
        /\ last.ret \in {"True", "False"}
        /\ Len(Given.bars) < 60 => last.ret = "False"
        /\ Len(Given.bars) >= 60 => (last.ret = "True" <=> HighNarrowFlag)

C31_Witness ==
    /\ last.op = "is_high_narrow_flag"
    /\ Len(Given.bars) = 60
    /\ last.post = 10
    /\ LatestBar = Top190
    /\ last.tail = <<Calm, Almost, Surge, Surge>>
    /\ last.ret = "True"

(***************************************************************************)
(* The fundamentals predicates on what get_stock_fundamentals returns for  *)
(* a symbol.  `last.fund` is that bundle: the source's tables change one   *)
(* at a time, or the gateway fails and hands {}, and the predicates are    *)
(* called in between.  The indicator table is dated in ascending order,    *)
(* the report tables newest first, as the source hands them.               *)
(***************************************************************************)
PEs == {Num(0), Num(20), Num(21), NaN}
PBs == {Num(0), Quotient(4, 10), Quotient(5, 10), Num(10), Quotient(101, 10), NaN}
ROEs == {Num(14), Num(15), NaN}
MarketCaps == {Num(500), Num(600), NaN}

IndicatorColumns == {"trade_date", "pe", "pb", "roe", "total_mv"}
BalanceColumns == {"REPORT_DATE", "TOTAL_ASSETS", "TOTAL_CURRENT_ASSETS", "TOTAL_LIABILITIES"}
CashFlowColumns == {"REPORT_DATE", "OPERATE_CASH_FLOW"}

IndicatorRow(date, pe, pb, roe, total_mv) ==
    [trade_date |-> Num(date), pe |-> pe, pb |-> pb, roe |-> roe, total_mv |-> total_mv]
BalanceRow(date, assets, current, liabilities) ==
    [REPORT_DATE |-> Num(date), TOTAL_ASSETS |-> assets, TOTAL_CURRENT_ASSETS |-> current,
     TOTAL_LIABILITIES |-> liabilities]
CashFlowRow(date, operate) == [REPORT_DATE |-> Num(date), OPERATE_CASH_FLOW |-> operate]

\* an older row that meets every condition of both predicates
OlderIndicator == IndicatorRow(1, Num(10), Quotient(4, 10), Num(20), Num(500))
OlderBalance == BalanceRow(1, Num(1000), Num(1000), Num(400))
OlderCashFlow == CashFlowRow(1, Num(10))

Lacking(table, col) == [table EXCEPT !.cols = @ \ {col}]

IndicatorTables ==
    {NoTable}
    \cup {[cols |-> IndicatorColumns,
           rows |-> <<OlderIndicator, IndicatorRow(2, pe, pb, roe, total_mv)>>] :
              pe \in PEs, pb \in PBs, roe \in ROEs, total_mv \in MarketCaps}
    \cup {Lacking([cols |-> IndicatorColumns, rows |-> <<OlderIndicator, OlderIndicator>>], col) :
              col \in IndicatorColumns}

BalanceRows ==
    {BalanceRow(2, Num(1000), Num(1000), Num(400)),
     BalanceRow(2, Num(800), Num(1000), Num(400)),
     BalanceRow(2, Num(1000), Num(1000), Num(500)),
     BalanceRow(2, Num(0), Num(1000), Num(400)),
     BalanceRow(2, NaN, Num(1000), Num(400)),
     BalanceRow(2, Num(1000), NaN, Num(400)),
     BalanceRow(2, Num(1000), Num(1000), NaN)}

BalanceTables ==
    {NoTable}
    \cup {[cols |-> BalanceColumns, rows |-> <<row, OlderBalance>>] : row \in BalanceRows}
    \cup {Lacking([cols |-> BalanceColumns, rows |-> <<OlderBalance, OlderBalance>>], col) :
              col \in BalanceColumns \ {"REPORT_DATE"}}

CashFlowTables ==
    {NoTable,
     Lacking([cols |-> CashFlowColumns, rows |-> <<OlderCashFlow, OlderCashFlow>>],
             "OPERATE_CASH_FLOW")}
    \cup {[cols |-> CashFlowColumns, rows |-> <<CashFlowRow(2, operate), OlderCashFlow>>] :
              operate \in {Num(10), Num(0), NaN}}

FundamentalsInit ==
    /\ PredicateIdle
    /\ last = NoPredicateCall(2, Quiet, {})

Handed(fund) ==
    /\ last' = [last EXCEPT !.op = "none", !.fund = fund, !.ret = None]
    /\ UNCHANGED <<cacheVars, runVars, stored, ops, racers>>

\* the dict get_stock_fundamentals builds, with the table `part` replaced
WithTable(fund, part, table) ==
    [keys |-> Parts, tables |-> [fund.tables EXCEPT ![part] = table]]

IndicatorChanges ==
    \E table \in IndicatorTables : Handed(WithTable(last.fund, "indicator", table))

BalanceSheetChanges ==
    \E table \in BalanceTables : Handed(WithTable(last.fund, "balance_sheet", table))

CashFlowChanges ==
    \E table \in CashFlowTables : Handed(WithTable(last.fund, "cash_flow", table))

\* the outer except of get_stock_fundamentals
FundamentalsFail == last.fund # NoBundle /\ Handed(NoBundle)

GoodFundamentalCalled ==
    Applied("is_good_fundamental", VolumeUpDefaults, last.fund, is_good_fundamental(last.fund))

CigaretteButtCalled ==
    Applied("is_cigarette_butt", VolumeUpDefaults, last.fund, is_cigarette_butt(last.fund))

FundamentalsNext ==
    \/ IndicatorChanges
    \/ BalanceSheetChanges
    \/ CashFlowChanges
    \/ FundamentalsFail
    \/ GoodFundamentalCalled
    \/ CigaretteButtCalled

FundamentalsSpec == FundamentalsInit /\ [][FundamentalsNext]_vars

(***************************************************************************)
(* Properties of the fundamentals predicates.                              *)
(***************************************************************************)
\* the row of a table with the greatest date in column `date`
NewestRow(table, date) ==
    CHOOSE row \in {table.rows[n] : n \in DOMAIN table.rows} :
        \A n \in DOMAIN table.rows : Le(table.rows[n][date], row[date])

Has(fund, part) == part \in fund.keys /\ ~TableEmpty(fund.tables[part])

GoodFundamental(fund) ==
    /\ Has(fund, "indicator")
    /\ {"trade_date", "pe", "pb", "roe"} \subseteq fund.tables["indicator"].cols
    /\ LET latest == NewestRow(fund.tables["indicator"], "trade_date")
       IN  /\ Lt(Num(0), latest.pe) /\ Le(latest.pe, Num(20))
           /\ Lt(Num(0), latest.pb) /\ Le(latest.pb, Num(10))
           /\ Ge(latest.roe, Num(15))

\* C32: is_good_fundamental returns true iff the indicator table is non-empty,
\* has every required column, and its latest row has 0 < PE <= 20,
\* 0 < PB <= 10 and ROE >= 15; an empty bundle, an empty indicator table or a
\* missing required column gives no match without raising.
C32_GoodFundamentalIff ==
    last.op = "is_good_fundamental" =>
        /\ last.ret \in {"True", "False"}
        /\ last.ret = "True" <=> GoodFundamental(last.fund)

\* the same, over the bundles whose latest ROE is a number
C32_HoldsWhenROEIsDefined ==
    (/\ last.op = "is_good_fundamental"
     /\ Has(last.fund, "indicator")
     /\ NewestRow(last.fund.tables["indicator"], "trade_date").roe.defined)
        => (last.ret = "True" <=> GoodFundamental(last.fund))

C32_MatchAtTheBounds ==
    /\ last.op = "is_good_fundamental"
    /\ last.ret = "True"
    /\ NewestRow(last.fund.tables["indicator"], "trade_date").pe = Num(20)
    /\ NewestRow(last.fund.tables["indicator"], "trade_date").pb = Num(10)
    /\ NewestRow(last.fund.tables["indicator"], "trade_date").roe = Num(15)

CigaretteButt(fund) ==
    /\ Has(fund, "indicator") /\ Has(fund, "balance_sheet") /\ Has(fund, "cash_flow")
    /\ {"pb", "total_mv"} \subseteq fund.tables["indicator"].cols
    /\ {"TOTAL_ASSETS", "TOTAL_CURRENT_ASSETS", "TOTAL_LIABILITIES"}
            \subseteq fund.tables["balance_sheet"].cols
    /\ "OPERATE_CASH_FLOW" \in fund.tables["cash_flow"].cols
    /\ LET latest == NewestRow(fund.tables["indicator"], "trade_date")
           balance == NewestRow(fund.tables["balance_sheet"], "REPORT_DATE")
           cash == NewestRow(fund.tables["cash_flow"], "REPORT_DATE")
       IN  /\ Lt(latest.pb, Quotient(1, 2))
           /\ Lt(latest.total_mv, Minus(balance.TOTAL_CURRENT_ASSETS, balance.TOTAL_LIABILITIES))
           /\ balance.TOTAL_ASSETS.defined /\ balance.TOTAL_LIABILITIES.defined
           /\ balance.TOTAL_ASSETS.num # 0
           /\ ~QuotientAtLeastHalf(balance.TOTAL_LIABILITIES, balance.TOTAL_ASSETS)
           /\ Lt(Num(0), cash.OPERATE_CASH_FLOW)

\* C33: is_cigarette_butt returns true iff the latest PB is < 0.5, the most
\* recent balance-sheet row has (current assets - total liabilities) strictly
\* greater than the latest market cap and total liabilities / total assets
\* < 0.5, and the most recent cash-flow row has operating cash flow > 0; a
\* missing table or a missing required column gives no match without raising.
C33_CigaretteButtIff ==
    last.op = "is_cigarette_butt" =>
        /\ last.ret \in {"True", "False"}
        /\ last.ret = "True" <=> CigaretteButt(last.fund)

AllTestedDefined(fund) ==
    /\ \A n \in DOMAIN fund.tables["indicator"].rows :
            /\ fund.tables["indicator"].rows[n].pb.defined
            /\ fund.tables["indicator"].rows[n].total_mv.defined
    /\ \A n \in DOMAIN fund.tables["balance_sheet"].rows :
            /\ fund.tables["balance_sheet"].rows[n].TOTAL_ASSETS.defined
            /\ fund.tables["balance_sheet"].rows[n].TOTAL_CURRENT_ASSETS.defined
            /\ fund.tables["balance_sheet"].rows[n].TOTAL_LIABILITIES.defined
    /\ \A n \in DOMAIN fund.tables["cash_flow"].rows :
            fund.tables["cash_flow"].rows[n].OPERATE_CASH_FLOW.defined

\* the same, over the bundles in which every tested value is a number
C33_HoldsWhenValuesAreDefined ==
    (last.op = "is_cigarette_butt" /\ AllTestedDefined(last.fund))
        => (last.ret = "True" <=> CigaretteButt(last.fund))

\* the example of the specification: PB 0.4, current assets 1000,
\* liabilities 400, market cap 500, operating cash flow 10
C33_ExampleMatches ==
    /\ last.op = "is_cigarette_butt"
    /\ last.ret = "True"
    /\ AllTestedDefined(last.fund)
    /\ NewestRow(last.fund.tables["indicator"], "trade_date").pb = Quotient(4, 10)
    /\ NewestRow(last.fund.tables["indicator"], "trade_date").total_mv = Num(500)
    /\ NewestRow(last.fund.tables["balance_sheet"], "REPORT_DATE").TOTAL_LIABILITIES = Num(400)
    /\ NewestRow(last.fund.tables["cash_flow"], "REPORT_DATE").OPERATE_CASH_FLOW = Num(10)

Undefined(table, date, col) == ~NewestRow(table, date)[col].defined

GoodFundamentalReadsNaN(fund) ==
    /\ Has(fund, "indicator")
    /\ {"trade_date", "pe", "pb", "roe"} \subseteq fund.tables["indicator"].cols
    /\ \E col \in {"pe", "pb", "roe"} : Undefined(fund.tables["indicator"], "trade_date", col)

CigaretteButtReadsNaN(fund) ==
    \/ /\ Has(fund, "indicator")
       /\ \E col \in {"pb", "total_mv"} \cap fund.tables["indicator"].cols :
                Undefined(fund.tables["indicator"], "trade_date", col)
    \/ /\ Has(fund, "balance_sheet")
       /\ \E col \in fund.tables["balance_sheet"].cols \ {"REPORT_DATE"} :
                Undefined(fund.tables["balance_sheet"], "REPORT_DATE", col)
    \/ /\ Has(fund, "cash_flow")
       /\ "OPERATE_CASH_FLOW" \in fund.tables["cash_flow"].cols
       /\ Undefined(fund.tables["cash_flow"], "REPORT_DATE", "OPERATE_CASH_FLOW")

\* C40: the fundamentals predicates treat an undefined (NaN) tested field as
\* the condition not met: is_good_fundamental does not match when the latest
\* PE, PB or ROE is undefined, and is_cigarette_butt does not match when PB,
\* market cap, a balance-sheet value it reads or the operating cash flow is
\* undefined.
C40_UndefinedFieldGivesNoMatch ==
    /\ (last.op = "is_good_fundamental" /\ GoodFundamentalReadsNaN(last.fund))
            => last.ret = "False"
    /\ (last.op = "is_cigarette_butt" /\ CigaretteButtReadsNaN(last.fund))
            => last.ret = "False"

\* the part of C40 the code meets: an undefined PE or PB in is_good_fundamental
C40_UndefinedPEorPBGivesNoMatch ==
    (/\ last.op = "is_good_fundamental"
     /\ Has(last.fund, "indicator")
     /\ \E col \in {"pe", "pb"} : Undefined(last.fund.tables["indicator"], "trade_date", col))
        => last.ret = "False"

(***************************************************************************)
(* utils/stock_data.py: calculate_technical_indicators in full.  A frame   *)
(* is [cols, bars], each bar a function from the column names to values    *)
(* [defined, num, den].  The assignments of lines 233-263 are taken in the *)
(* code's order; each reads the frame as the assignments before it left    *)
(* it.                                                                     *)
(***************************************************************************)
Periods == <<5, 10, 20, 30, 60>>
Lags == 1..15

Plus(x, y) ==
    IF x.defined /\ y.defined
    THEN Quotient(x.num * y.den + y.num * x.den, x.den * y.den)
    ELSE NaN

\* x / y on floats: x / 0 is inf, -inf or NaN
Over(x, y) ==
    IF ~(x.defined /\ y.defined) THEN NaN
    ELSE IF y.num = 0
         THEN IF x.num = 0 THEN NaN ELSE Quotient(IF x.num > 0 THEN 1 ELSE -1, 0)
    ELSE Quotient(x.num * y.den, x.den * y.num)

Rolling(name, kind, of, n) == [name |-> name, kind |-> kind, of |-> of, n |-> n, by |-> ""]
Shift(name, of, n) == [name |-> name, kind |-> "shift", of |-> of, n |-> n, by |-> ""]
Divide(name, of, by) == [name |-> name, kind |-> "over", of |-> of, n |-> 0, by |-> by]

\* the column assignments of lines 233-263, in order
Steps ==
    [j \in 1..5 |-> Rolling("ma" \o ToString(Periods[j]), "mean", "close", Periods[j])]
    \o <<Rolling("volume_ma5", "mean", "volume", 5),
         Rolling("volume_ma10", "mean", "volume", 10),
         Shift("pre_close", "close", 1),
         Shift("pre_open", "open", 1),
         Shift("pre_volume", "volume", 1),
         Shift("pre_amount", "amount", 1),
         Divide("volume_ratio", "volume", "volume_ma5")>>
    \o [j \in 1..10 |->
            IF j % 2 = 1
            THEN Rolling("highest_" \o ToString(Periods[(j + 1) \div 2]) \o "d", "max", "high",
                         Periods[(j + 1) \div 2])
            ELSE Rolling("lowest_" \o ToString(Periods[j \div 2]) \o "d", "min", "low",
                         Periods[j \div 2])]
    \o [j \in 1..4 |->
            Divide("price_to_lowest_" \o ToString(Periods[j + 1]) \o "d", "close",
                   "lowest_" \o ToString(Periods[j + 1]) \o "d")]
    \o [k \in Lags |-> Shift("pct_chg_" \o ToString(k) \o "d", "pct_chg", k)]

RECURSIVE Total(_, _, _)
Total(column, from, to) ==
    IF from > to THEN Num(0)
    ELSE IF from = to THEN column[from]
    ELSE Plus(Total(column, from, (from + to) \div 2),
              Total(column, (from + to) \div 2 + 1, to))

\* variant: a window that is not yet full gives 0
RollingValue_ZeroUntilFull(kind, column, n, i) ==
    IF i < n THEN Num(0)
    ELSE IF \E j \in (i - n + 1)..i : ~column[j].defined THEN NaN
    ELSE LET window == {column[j] : j \in (i - n + 1)..i}
         IN  CASE kind = "mean" ->
                    LET total == Total(column, i - n + 1, i)
                    IN  Quotient(total.num, total.den * n)
               [] kind = "max" -> CHOOSE x \in window : \A y \in window : Le(y, x)
               [] kind = "min" -> CHOOSE x \in window : \A y \in window : Le(x, y)

\* Series.rolling(window=n) at row i: NaN until n rows are in the window, and
\* when a value of the window is NaN
RollingValue(kind, column, n, i) ==
    IF i < n \/ \E j \in (i - n + 1)..i : ~column[j].defined THEN NaN
    ELSE LET window == {column[j] : j \in (i - n + 1)..i}
         IN  CASE kind = "mean" ->
                    LET total == Total(column, i - n + 1, i)
                    IN  Quotient(total.num, total.den * n)
               [] kind = "max" -> CHOOSE x \in window : \A y \in window : Le(y, x)
               [] kind = "min" -> CHOOSE x \in window : \A y \in window : Le(x, y)

AllDerivedColumns == {Steps[k].name : k \in DOMAIN Steps}

\* the assignment that sets a derived column (each is set once)
StepIndex == [c \in AllDerivedColumns |-> CHOOSE k \in DOMAIN Steps : Steps[k].name = c]

RECURSIVE ColumnAt(_, _, _, _)
\* the value of column c at row i once the first k assignments are done: what
\* the assignment of c computed from the frame before it, or the value given
ColumnAt(df, k, c, i) ==
    IF ~(c \in AllDerivedColumns /\ StepIndex[c] <= k) THEN df.bars[i][c]
    ELSE LET step == Steps[StepIndex[c]]
             before == StepIndex[c] - 1
         IN  CASE step.kind = "shift" ->
                    IF i <= step.n THEN NaN ELSE ColumnAt(df, before, step.of, i - step.n)
               [] step.kind = "over" ->
                    Over(ColumnAt(df, before, step.of, i), ColumnAt(df, before, step.by, i))
               [] OTHER ->
                    RollingValue(step.kind,
                                 [j \in (IF i < step.n THEN i ELSE i - step.n + 1)..i |->
                                        ColumnAt(df, before, step.of, j)],
                                 step.n, i)

\* lines 218-227: the frame itself when it is empty or lacks a required column
ReturnedAsIs(df) == df.bars = <<>> \/ ~(RequiredColumns \subseteq df.cols)

WithAllColumns(df, value(_, _)) ==
    [cols |-> df.cols \cup AllDerivedColumns,
     bars |-> [i \in DOMAIN df.bars |->
                    [c \in df.cols \cup AllDerivedColumns |-> value(c, i)]]]

\* variant: a frame that lacks a required column gets the derived columns,
\* all undefined
TechnicalIndicators_ColumnsAnyway(df) ==
    IF df.bars = <<>> THEN df
    ELSE IF ~(RequiredColumns \subseteq df.cols)
         THEN LET value(c, i) == IF c \in df.cols THEN df.bars[i][c] ELSE NaN
              IN  WithAllColumns(df, value)
    ELSE LET value(c, i) == ColumnAt(df, Len(Steps), c, i)
         IN  WithAllColumns(df, value)

\* the frame calculate_technical_indicators returns
TechnicalIndicators(df) ==
    IF ReturnedAsIs(df) THEN df
    ELSE LET value(c, i) == ColumnAt(df, Len(Steps), c, i)
         IN  WithAllColumns(df, value)

(***************************************************************************)
(* calculate_technical_indicators applied directly.  `last` describes the  *)
(* caller's series; a call leaves in `last.ret` the frame it was given,    *)
(* the object it returned and the content of the objects after the call:   *)
(* "given" is the caller's frame, "copy" the df.copy() of line 230.  A     *)
(* second call is applied to the frame the first one returned.             *)
(***************************************************************************)
Flat == Bar(100, 102, 97, 5, 100000000, 20)
Up == Bar(101, 106, 99, 40, 200000000, 50)
Down == Bar(105, 96, 93, -90, 150000000, 5)
EnrichBars == {Up, Down}

\* <<bars before the appended ones, bars after them, columns missing>>
EnrichShapes ==
    {<<0, 0, {}>>, <<3, 0, {}>>, <<56, 0, {}>>, <<52, 5, {}>>}
    \cup {<<3, 0, {c}>> : c \in RequiredColumns}
    \cup {<<0, 0, {"pct_chg", "amount"}>>}

\* the provider's frame for a series of bars
FrameOf(df) ==
    [cols |-> df.cols,
     bars |-> [i \in DOMAIN df.bars |-> [c \in df.cols |-> Num(df.bars[i][c])]]]

\* variant: the assignments are made on the frame given, without line 230
Target_NoCopy(df) == "given"

\* the object the function works on and returns: df itself (lines 219, 227)
\* or df.copy() (line 230)
Target(df) == IF ReturnedAsIs(df) THEN "given" ELSE "copy"

EnrichCall(df) ==
    [input |-> df,
     obj |-> Target(df),
     heap |-> [o \in {"given", Target(df)} |->
                    IF o = Target(df) THEN TechnicalIndicators(df) ELSE df]]

EnrichInit ==
    /\ PredicateIdle
    /\ last \in {[NoPredicateCall(shape[1], Flat, shape[3])
                    EXCEPT !.post = shape[2], !.postBar = Flat] : shape \in EnrichShapes}

AppendEnrichBar ==
    /\ Len(last.tail) < MaxTail
    /\ \E bar \in EnrichBars : Appended(bar)

EnrichCalled ==
    /\ last.op = "none"
    /\ Applied("calculate_technical_indicators", VolumeUpDefaults, NoBundle,
               EnrichCall(FrameOf(Series(last))))

EnrichCalledAgain ==
    /\ last.op = "calculate_technical_indicators"
    /\ Applied("calculate_technical_indicators again", VolumeUpDefaults, NoBundle,
               EnrichCall(last.ret.heap[last.ret.obj]))

EnrichNext ==
    \/ AppendEnrichBar
    \/ EnrichCalled
    \/ EnrichCalledAgain

EnrichSpec == EnrichInit /\ [][EnrichNext]_vars

(***************************************************************************)
(* Properties of calculate_technical_indicators.                           *)
(***************************************************************************)
EnrichWasCalled == last.op = "calculate_technical_indicators"
EnrichInput == last.ret.input
EnrichResult == last.ret.heap[last.ret.obj]

\* C34: calculate_technical_indicators returns its input unchanged, with no
\* derived column added, whenever any of open, close, high, low, volume,
\* amount or pct_chg is absent from the series, and returns an empty series
\* unchanged.
C34_IncompleteOrEmptyIsReturnedUnchanged ==
    (/\ EnrichWasCalled
     /\ \/ RequiredColumns \ last.ret.input.cols # {}
        \/ last.ret.input.bars = <<>>)
        => /\ last.ret.obj = "given"
           /\ last.ret.heap["given"] = FrameOf(Given)
           /\ EnrichResult.cols \cap AllDerivedColumns = {}

C34_Witness ==
    /\ EnrichWasCalled
    /\ last.missing = {"amount"}
    /\ Len(Given.bars) = 7
    /\ EnrichResult = FrameOf(Given)
    /\ EnrichResult.cols = RequiredColumns \ {"amount"}

C34_EmptyWitness ==
    /\ EnrichWasCalled
    /\ last.missing = {}
    /\ Given.bars = <<>>
    /\ EnrichResult = FrameOf(Given)

\* C36: enrichment is idempotent: for every series with the required columns,
\* applying calculate_technical_indicators to an already enriched series
\* yields the same derived values as applying it once; and the call does not
\* modify the frame object it was given.
C36_IdempotentAndInputUntouched ==
    /\ last.op \in {"calculate_technical_indicators", "calculate_technical_indicators again"}
            => last.ret.heap["given"] = last.ret.input
    /\ (last.op = "calculate_technical_indicators again"
        /\ RequiredColumns \subseteq last.ret.input.cols)
            => /\ EnrichResult = last.ret.input
               /\ last.ret.input.bars # <<>> => AllDerivedColumns \subseteq last.ret.input.cols

C36_Witness ==
    /\ last.op = "calculate_technical_indicators again"
    /\ Len(last.ret.input.bars) = 61
    /\ last.tail = <<Up, Down, Up, Up>>
    /\ AllDerivedColumns \subseteq last.ret.input.cols
    /\ last.ret.input.bars[60]["ma60"].defined
    /\ last.ret.obj = "copy"
    /\ EnrichResult = last.ret.input
    /\ last.ret.heap["given"] = last.ret.input

Same(x, y) ==
    \/ ~x.defined /\ ~y.defined
    \/ x.defined /\ y.defined /\ x.num * y.den = y.num * x.den

RECURSIVE SumOf(_, _, _, _)
SumOf(bars, field, from, to) ==
    IF from > to THEN 0
    ELSE IF from = to THEN bars[from][field]
    ELSE SumOf(bars, field, from, (from + to) \div 2)
         + SumOf(bars, field, (from + to) \div 2 + 1, to)

HighestOf(bars, from, to) ==
    CHOOSE x \in {bars[j].high : j \in from..to} : \A j \in from..to : bars[j].high <= x
LowestOf(bars, from, to) ==
    CHOOSE x \in {bars[j].low : j \in from..to} : \A j \in from..to : x <= bars[j].low

Suffix(w) == ToString(w) \o "d"

\* row r (counted from 1) of the enriched frame against bars r-w+1..r
WindowValuesAt(bars, row, r, w) ==
    IF r < w
    THEN /\ row["ma" \o ToString(w)] = NaN
         /\ row["highest_" \o Suffix(w)] = NaN
         /\ row["lowest_" \o Suffix(w)] = NaN
         /\ w # 5 => row["price_to_lowest_" \o Suffix(w)] = NaN
         /\ w = 5 => row["volume_ratio"] = NaN
    ELSE /\ Same(row["ma" \o ToString(w)], Quotient(SumOf(bars, "close", r - w + 1, r), w))
         /\ Same(row["highest_" \o Suffix(w)], Num(HighestOf(bars, r - w + 1, r)))
         /\ Same(row["lowest_" \o Suffix(w)], Num(LowestOf(bars, r - w + 1, r)))
         /\ w # 5 => Same(row["price_to_lowest_" \o Suffix(w)],
                          Quotient(bars[r].close, LowestOf(bars, r - w + 1, r)))
         /\ w = 5 => Same(row["volume_ratio"],
                          IF SumOf(bars, "volume", r - 4, r) = 0 THEN NaN
                          ELSE Quotient(5 * bars[r].volume, SumOf(bars, "volume", r - 4, r)))

LaggedValuesAt(bars, row, r) ==
    \A k \in Lags :
        row["pct_chg_" \o Suffix(k)] = IF r <= k THEN NaN ELSE Num(bars[r - k].pct_chg)

Prefix(df, n) == [cols |-> df.cols, bars |-> SubSeq(df.bars, 1, n)]

NoLookAhead ==
    \A n \in 0..Len(Given.bars) :
        \A r \in 1..n :
            TechnicalIndicators(Prefix(EnrichInput, n)).bars[r] = EnrichResult.bars[r]

\* C35: in an enriched series, for every window w and row r, each w-window
\* derived value (moving average, rolling max of high, rolling min of low,
\* close-to-rolling-low ratio, volume ratio with w = 5) is undefined while
\* fewer than w bars end at r and otherwise is computed from the w bars ending
\* at r only; each k-lag percent-change (k in 1..15) is undefined while fewer
\* than k bars precede r and otherwise is the percent-change of the k-th bar
\* before r; enriching a prefix of a series gives the prefix of the enriched
\* series.
C35_WindowsLagsAndPrefixes ==
    (EnrichWasCalled /\ ~ReturnedAsIs(EnrichInput)) =>
        /\ \A r \in DOMAIN Given.bars :
                /\ \A j \in DOMAIN Periods :
                        WindowValuesAt(Given.bars, EnrichResult.bars[r], r, Periods[j])
                /\ LaggedValuesAt(Given.bars, EnrichResult.bars[r], r)
        /\ NoLookAhead

C35_Witness ==
    /\ EnrichWasCalled
    /\ Len(Given.bars) = 61
    /\ last.tail = <<Up, Down, Down, Up>>
    /\ EnrichResult.bars[59]["ma60"] = NaN
    /\ EnrichResult.bars[60]["ma60"].defined
    /\ EnrichResult.bars[61]["lowest_5d"] = Num(97)
    /\ EnrichResult.bars[61]["lowest_10d"] = Num(93)
    /\ EnrichResult.bars[15]["pct_chg_15d"] = NaN
    /\ EnrichResult.bars[61]["pct_chg_5d"] = Num(40)
    /\ EnrichResult.bars[61]["pct_chg_6d"] = Num(-90)

\* the ratio the predicates read is the one of the full enrichment
VolumeRatioAgrees ==
    (EnrichWasCalled /\ ~ReturnedAsIs(EnrichInput)) =>
        \A r \in DOMAIN Given.bars :
            Enriched(Given).bars[r].volume_ratio = EnrichResult.bars[r]["volume_ratio"]
====
